---- MODULE Spec2Model ----
(***************************************************************************)
(* A model of the request layer of m3u2spotify (syncify / musify):         *)
(*   - the SQLite response repository (musify/api/cache/backend/sqlite.py) *)
(*   - the cached session          (musify/api/cache/session.py)           *)
(*   - the request handler         (syncify.api.RequestHandler)            *)
(*   - the token authoriser        (syncify/utils_new/api.py)              *)
(***************************************************************************)
EXTENDS Integers, Sequences, FiniteSets, TLC

VARIABLES
    now,        \* the wall clock, datetime.now(), in ticks
    table,      \* the rows of the repository's table: key -> row
    written,    \* key -> the value handed to the last set of that key (history)
    sess,       \* the one CachedSession.request call in flight
    tasks,      \* the request calls of one session that run side by side
    hand,       \* the one logical call of the request handler in flight
    args,       \* auth_args and user_args, with the code _auth_user leaves there
    conf,       \* the authoriser's configuration, fixed at construction
    token,      \* APIAuthoriser.token
    file,       \* the content of the file at token_file_path
    auth,       \* the one APIAuthoriser.auth call in flight
    cache,      \* SQLiteCache._repositories and the last create_repository
    probe,      \* the inputs and the outputs of one call of a pure function
    conn        \* the aiosqlite connection the cache and its tables share

(***************************************************************************)
(* Bounds of the model.                                                    *)
(***************************************************************************)
MaxTime == 3
MaxOffset == 1
MaxSize == 2
MaxOther == 1
TicksPerSecond == 2
Ttl == 2
MaxDoc == 1
MaxSends == 5
MaxPending == 3
MaxAccess == 1
MaxLifetime == 2
\* the handler's configuration
backoff_start == 1
backoff_factor == 2
backoff_count == 3
timeout == 2

(***************************************************************************)
(* Values.  Every Python value the cache handles is a record of one shape: *)
(*   type  "dict" a parsed JSON document, "str" a text, "none" None        *)
(*   valid for a text: whether json.loads accepts it                       *)
(*   doc   which document it is (a dict) or encodes (a valid text);        *)
(*         document 0 is JSON null, which json.loads gives back as None    *)
(* Two texts that encode the same document are the same value here.        *)
(***************************************************************************)
None == [type |-> "none", valid |-> FALSE, doc |-> 0]
Dict(n) == [type |-> "dict", valid |-> FALSE, doc |-> n]
JsonText(n) == [type |-> "str", valid |-> TRUE, doc |-> n]
RawText(n) == [type |-> "str", valid |-> FALSE, doc |-> n]

Docs == 1..MaxDoc
Payloads == {Dict(n) : n \in Docs} \cup {JsonText(n) : n \in Docs} \cup {RawText(1)}

\* json.dumps(value, indent=2): the text that encodes the document
json_dumps(value) == JsonText(value.doc)

\* json.loads(text) of a text that is valid JSON: the document it encodes
json_loads(text) == IF text.doc = 0 THEN None ELSE Dict(text.doc)

\* SQLiteTable.serialize: a text is kept when it is valid JSON and dropped
\* (None) when it is not; anything else is dumped
serialize(value) ==
    IF value.type = "str"
    THEN IF value.valid THEN value ELSE None
    ELSE json_dumps(value)

\* a deserialize that hands a text back unparsed
deserialize_unparsed(value) ==
    IF value.type = "none" THEN None ELSE value

\* SQLiteTable.deserialize: a dict is returned as it is; a text is parsed,
\* and a JSONDecodeError or TypeError gives None
deserialize(value) ==
    IF value.type = "dict" THEN value
    ELSE IF value.type = "str" /\ value.valid THEN json_loads(value)
    ELSE None

(***************************************************************************)
(* Time.  datetime.isoformat() leaves the fraction out when it is zero, and*)
(* SQLite compares the stored texts character by character: a text that is *)
(* a prefix of another is the smaller one.                                 *)
(***************************************************************************)
isoformat(t) ==
    IF t % TicksPerSecond = 0
    THEN <<t \div TicksPerSecond>>
    ELSE <<t \div TicksPerSecond, t % TicksPerSecond>>

\* datetime.fromisoformat: the time a text stands for
fromisoformat(text) ==
    text[1] * TicksPerSecond + (IF Len(text) = 2 THEN text[2] ELSE 0)

\* a comparison that lets the boundary through:  a >= b
TextGE(a, b) ==
    \/ a[1] > b[1]
    \/ /\ a[1] = b[1]
       /\ \/ Len(a) >= Len(b)
          \/ Len(a) = 2 /\ Len(b) = 2 /\ a[2] >= b[2]

\* the comparison  a > b  of two isoformat texts in a WHERE clause
TextGT(a, b) ==
    \/ a[1] > b[1]
    \/ /\ a[1] = b[1]
       /\ \/ Len(a) > Len(b)
          \/ Len(a) = 2 /\ Len(b) = 2 /\ a[2] > b[2]

\* ResponseRepository.expire: the expiry time of a write made now
expire(t) == t + Ttl

(***************************************************************************)
(* Requests and keys.                                                      *)
(***************************************************************************)
Methods == {"GET"}
Ids == {"a", "b"}
\* a URL of the repository's family carries an id; any other URL gives "";
\* a malformed URL is one that _build_url rejects with ValueError
Urls == {[family |-> "tracks", id |-> i] : i \in Ids}
            \cup {[family |-> "other", id |-> ""]}
            \cup {[family |-> "malformed", id |-> ""]}
Requests == [method : Methods, url : Urls]
Keys == {<<m, i>> : m \in Methods, i \in Ids}

\* RequestSettings.get_id(url)
get_id(url) == url.id

NoKey == <<>>

Families == {"tracks", "pages"}
\* RequestSettings of a family; paginated for PaginatedRequestSettings
Settings == [name : Families, paginated : BOOLEAN]
TracksSettings == [name |-> "tracks", paginated |-> FALSE]
NoSettings == [name |-> "", paginated |-> FALSE]

\* PaginatedRequestSettings.get_offset(url) and get_limit(url): the offset
\* and the page size the URL's query carries
get_offset(url) == url.offset
get_limit(url) == url.size

\* a key derivation that leaves the page window out
key_from_request_no_page(settings, request) ==
    IF get_id(request.url) = "" THEN NoKey
    ELSE <<request.method, get_id(request.url)>>

\* SQLiteTable.get_key_from_request under the repository's settings: nothing
\* without an id; method and id; offset and size too when paginated
key_from_request(settings, request) ==
    IF get_id(request.url) = "" THEN NoKey
    ELSE IF settings.paginated
         THEN <<request.method, get_id(request.url),
                get_offset(request.url), get_limit(request.url)>>
         ELSE <<request.method, get_id(request.url)>>

\* get_key_from_request of the repository of the table (not paginated)
get_key_from_request(request) == key_from_request(TracksSettings, request)

\* the descriptors key derivation is called with: two methods, a path with
\* or without an id, and a query of offset, size and one other parameter
ProbeMethods == {"GET", "POST"}
ProbeUrls ==
    [family : {"pages"}, id : Ids \cup {""}, offset : 0..MaxOffset,
     size : 1..MaxSize, other : 0..MaxOther]
ProbeRequests == [method : ProbeMethods, url : ProbeUrls]

(***************************************************************************)
(* The repository's queries.                                               *)
(***************************************************************************)
\* a WHERE clause that lets a row through at the moment it expires
NotExpiredOrNow(row, t) == TextGE(row.expires_at, isoformat(t))

\* WHERE expires_at > ? with ? = datetime.now().isoformat()
NotExpired(row, t) == TextGT(row.expires_at, isoformat(t))

\* SQLiteTable.contains
contains(key) ==
    /\ key \in DOMAIN table
    /\ NotExpired(table[key], now)

\* SQLiteTable.get_response
get_response(key) ==
    IF key = NoKey THEN None
    ELSE IF /\ key \in DOMAIN table
            /\ table[key].data # None
            /\ NotExpired(table[key], now)
         THEN deserialize(table[key].data)
         ELSE None

\* a count that never applies the WHERE clause
count_all(expired) == Cardinality(DOMAIN table)

\* SQLiteTable.count
count(expired) ==
    IF expired THEN Cardinality(DOMAIN table)
    ELSE Cardinality({k \in DOMAIN table : NotExpired(table[k], now)})

\* the row INSERT OR REPLACE writes
NewRow(value, t) ==
    [cached_at |-> isoformat(t),
     expires_at |-> isoformat(expire(t)),
     data |-> serialize(value)]

\* a write that leaves the stamps of a row that is there as they are
Upsert_keeps_stamps(tbl, key, value, t) ==
    [k \in DOMAIN tbl \cup {key} |->
        IF k # key THEN tbl[k]
        ELSE IF key \in DOMAIN tbl
             THEN [tbl[key] EXCEPT !.data = serialize(value)]
             ELSE NewRow(value, t)]

\* the table after INSERT OR REPLACE of key
Upsert(tbl, key, value, t) ==
    [k \in DOMAIN tbl \cup {key} |-> IF k = key THEN NewRow(value, t) ELSE tbl[k]]

\* the table after DELETE of key
Remove(tbl, key) == [k \in DOMAIN tbl \ {key} |-> tbl[k]]

(***************************************************************************)
(* The cached session.  One request call is in flight at a time; pc is the *)
(* place the call has reached:                                             *)
(*   "idle"    no call yet                                                 *)
(*   "send"    the cache gave nothing, the network call is next            *)
(*   "yielded" the response is with the caller                             *)
(*   "done"    the call has finished                                       *)
(*   "raised"  the call has ended with an exception                        *)
(***************************************************************************)
NoRequest == [method |-> "", url |-> [family |-> "", id |-> ""]]
NoResponse == [cached |-> FALSE, status |-> 0, data |-> None]

\* the request calls that one session has in flight side by side: each is a
\* task of the event loop running CachedSession.request for the same request
MaxTasks == 2
Tasks == 1..MaxTasks
TaskIdle == [pc |-> "idle", response |-> NoResponse, calls |-> 0]
NoTasks == [i \in Tasks |-> TaskIdle]

\* had_entry and stored are history: whether the request's key had a row
\* that was not expired when the cache was looked up, and that row's data
Idle ==
    [pc |-> "idle", request |-> NoRequest, persist |-> FALSE,
     repository |-> "", response |-> NoResponse, calls |-> 0,
     had_entry |-> FALSE, stored |-> None, error |-> "", use_cache |-> TRUE]

\* a _build_url that takes every URL
build_url_never_raises(url) == FALSE

\* self._build_url(url) raising ValueError
build_url_raises(url) == url.family = "malformed"

\* ResponseCache.get_repository_from_requests: the repository of the URL's
\* family, "" (None) when the URL belongs to no family
get_repository_from_requests(request) ==
    IF request.url.family = "tracks" THEN "tracks" ELSE ""

\* _get_cached_response with the dict case lost: a value that is no text is
\* given up instead of serialized
get_cached_response_text_only(request, repository) ==
    IF repository = "" THEN NoResponse
    ELSE LET data == get_response(get_key_from_request(request))
         IN  IF data = None \/ data.type # "str" THEN NoResponse
             ELSE [cached |-> TRUE, status |-> 200, data |-> data]

\* CachedSession._get_cached_response: None without a repository or without
\* a stored value, else the value as a text wrapped in a CachedResponse
get_cached_response(request, repository) ==
    IF repository = "" THEN NoResponse
    ELSE LET data == get_response(get_key_from_request(request))
         IN  IF data = None THEN NoResponse
             ELSE [cached |-> TRUE, status |-> 200,
                   data |-> IF data.type = "str" THEN data ELSE serialize(data)]

\* what the remote may answer
Statuses == {200, 404}
ErrorStatuses == {404}
Bodies == {JsonText(n) : n \in Docs} \cup {RawText(1)}

vars == <<now, table, written, sess, tasks, hand, args,
          conf, token, file, auth, cache, probe,
          conn>>
authvars == <<conf, token, file, auth>>
sidevars == <<cache, probe, conn>>

(***************************************************************************)
(* Actions of the repository.                                              *)
(***************************************************************************)
\* SQLiteTable._set_item_from_key_value_pair(key, value)
Set(key, value) ==
    /\ conn.alive
    /\ table' = Upsert(table, key, value, now)
    /\ written' = [k \in DOMAIN written \cup {key} |->
                      IF k = key THEN value ELSE written[k]]
    /\ UNCHANGED <<now, sess, tasks, hand, args, authvars, sidevars>>

\* SQLiteTable.delete_response(key)
Delete(key) ==
    /\ conn.alive
    /\ key \in DOMAIN table
    /\ table' = Remove(table, key)
    /\ written' = [k \in DOMAIN written \ {key} |-> written[k]]
    /\ UNCHANGED <<now, sess, tasks, hand, args, authvars, sidevars>>

\* the stored text of a row is damaged in the file, by other hands than the
\* repository's: it is no JSON any more
Corrupt(key) ==
    /\ key \in DOMAIN table
    /\ table[key].data # RawText(1)
    /\ table' = [table EXCEPT ![key].data = RawText(1)]
    /\ UNCHANGED <<now, written, sess, tasks, hand, args, authvars, sidevars>>

\* time passes
Tick ==
    /\ now < MaxTime
    /\ now' = now + 1
    /\ UNCHANGED <<table, written, sess, tasks, hand, args, authvars, sidevars>>

(***************************************************************************)
(* Actions of the cached session.                                          *)
(***************************************************************************)
\* CachedSession.request up to the cache lookup
request_begin(method, url, persist) ==
    /\ sess.pc \in {"idle", "done", "raised"}
    /\ LET req == [method |-> method, url |-> url]
           repository == get_repository_from_requests(req)
           response == get_cached_response(req, repository)
           key == get_key_from_request(req)
           entry == repository # "" /\ key # NoKey /\ contains(key)
       IN  IF build_url_raises(url)
           THEN \* raise InvalidURL(url), before the cache is asked
                sess' = [Idle EXCEPT !.pc = "raised", !.request = req,
                                     !.persist = persist,
                                     !.error = "InvalidURL"]
           ELSE IF repository # "" /\ key # NoKey /\ ~conn.alive
           THEN \* the SELECT of get_response on a closed connection raises
                sess' = [Idle EXCEPT !.pc = "raised", !.request = req,
                                     !.persist = persist,
                                     !.repository = repository,
                                     !.error = "read failed"]
           ELSE sess' = [pc |-> IF response = NoResponse THEN "send"
                                ELSE "yielded",
                         request |-> req, persist |-> persist,
                         repository |-> repository, response |-> response,
                         calls |-> 0,
                         had_entry |-> entry,
                         stored |-> IF entry THEN table[key].data ELSE None,
                         error |-> "", use_cache |-> TRUE]
    /\ UNCHANGED <<now, table, written, tasks, hand, args, authvars, sidevars>>

\* a handler that asks the cache although use_cache is off
request_bypass_reads(method, url, persist) ==
    /\ sess.pc \in {"idle", "done", "raised"}
    /\ ~build_url_raises(url)
    /\ LET req == [method |-> method, url |-> url]
           repository == get_repository_from_requests(req)
           response == get_cached_response(req, repository)
           key == get_key_from_request(req)
           entry == repository # "" /\ key # NoKey /\ contains(key)
       IN  sess' = [pc |-> IF response = NoResponse THEN "send" ELSE "yielded",
                    request |-> req, persist |-> persist,
                    repository |-> repository, response |-> response,
                    calls |-> 0,
                    had_entry |-> entry,
                    stored |-> IF entry THEN table[key].data ELSE None,
                    error |-> "", use_cache |-> FALSE]
    /\ UNCHANGED <<now, table, written, tasks, hand, args, authvars, sidevars>>

\* RequestHandler._request with use_cache off: the request goes to the
\* network without a lookup; whether the fresh response is then written
\* is left open (persist).  had_entry and stored tell, as history, what a
\* lookup would have found
request_bypass(method, url, persist) ==
    /\ sess.pc \in {"idle", "done", "raised"}
    /\ ~build_url_raises(url)
    /\ LET req == [method |-> method, url |-> url]
           repository == get_repository_from_requests(req)
           key == get_key_from_request(req)
           entry == repository # "" /\ key # NoKey /\ contains(key)
       IN  sess' = [pc |-> "send",
                    request |-> req, persist |-> persist,
                    repository |-> repository, response |-> NoResponse,
                    calls |-> 0,
                    had_entry |-> entry,
                    stored |-> IF entry THEN table[key].data ELSE None,
                    error |-> "", use_cache |-> FALSE]
    /\ UNCHANGED <<now, table, written, tasks, hand, args, authvars, sidevars>>

\* a session that asks the network again after an answer
request_send_again(status, body) ==
    /\ sess.pc = "send"
    /\ sess' = [sess EXCEPT !.response = [cached |-> FALSE, status |-> status,
                                          data |-> body],
                            !.calls = @ + 1]
    /\ UNCHANGED <<now, table, written, tasks, hand, args, authvars, sidevars>>

\* CachedSession.request: super().request(...), the network call
request_send(status, body) ==
    /\ sess.pc = "send"
    /\ sess' = [sess EXCEPT !.pc = "yielded",
                            !.response = [cached |-> FALSE, status |-> status,
                                          data |-> body],
                            !.calls = @ + 1]
    /\ UNCHANGED <<now, table, written, tasks, hand, args, authvars, sidevars>>

\* ResponseRepository.save_response: nothing without a key, else the
\* response's text is set under the key of its request
save_response(response, request) ==
    LET key == get_key_from_request(request)
    IN  IF key = NoKey THEN UNCHANGED <<table, written>>
        ELSE /\ table' = Upsert(table, key, response.data, now)
             /\ written' = [k \in DOMAIN written \cup {key} |->
                               IF k = key THEN response.data ELSE written[k]]

\* a session that never writes the response it got
request_finish_no_save ==
    /\ sess.pc = "yielded"
    /\ sess' = [sess EXCEPT !.pc = "done"]
    /\ UNCHANGED <<table, written>>
    /\ UNCHANGED <<now, tasks, hand, args, authvars, sidevars>>

\* a session that writes whatever it yields, asked to persist or not
request_finish_always_saves ==
    /\ sess.pc = "yielded"
    /\ IF sess.repository = ""
       THEN /\ sess' = [sess EXCEPT !.pc = "done"]
            /\ UNCHANGED <<table, written>>
       ELSE /\ save_response(sess.response, sess.request)
            /\ sess' = [sess EXCEPT !.pc = "done"]
    /\ UNCHANGED <<now, tasks, hand, args, authvars, sidevars>>

\* the write of save_response raises: the connection is closed
write_fails(key) == key # NoKey /\ ~conn.alive

\* a session that goes on when the write of the response has failed
request_finish_swallows ==
    /\ sess.pc = "yielded"
    /\ IF sess.persist /\ ~sess.response.cached
       THEN IF sess.repository = ""
            THEN /\ sess' = [sess EXCEPT !.pc = "raised",
                                         !.error = "AttributeError"]
                 /\ UNCHANGED <<table, written>>
            ELSE IF write_fails(get_key_from_request(sess.request))
            THEN /\ sess' = [sess EXCEPT !.pc = "done"]
                 /\ UNCHANGED <<table, written>>
            ELSE /\ save_response(sess.response, sess.request)
                 /\ sess' = [sess EXCEPT !.pc = "done"]
       ELSE /\ sess' = [sess EXCEPT !.pc = "done"]
            /\ UNCHANGED <<table, written>>
    /\ UNCHANGED <<now, tasks, hand, args, authvars, sidevars>>

\* CachedSession.request after the caller has used the response
request_finish ==
    /\ sess.pc = "yielded"
    /\ IF sess.persist /\ ~sess.response.cached
       THEN IF sess.repository = ""
            THEN \* None has no save_response: AttributeError
                 /\ sess' = [sess EXCEPT !.pc = "raised",
                                         !.error = "AttributeError"]
                 /\ UNCHANGED <<table, written>>
            ELSE IF write_fails(get_key_from_request(sess.request))
            THEN \* the error of the write leaves request as it is
                 /\ sess' = [sess EXCEPT !.pc = "raised",
                                         !.error = "write failed"]
                 /\ UNCHANGED <<table, written>>
            ELSE /\ save_response(sess.response, sess.request)
                 /\ sess' = [sess EXCEPT !.pc = "done"]
       ELSE /\ sess' = [sess EXCEPT !.pc = "done"]
            /\ UNCHANGED <<table, written>>
    /\ UNCHANGED <<now, tasks, hand, args, authvars, sidevars>>

\* the caller's block under "async with session.request(...)" raises: the
\* context manager has the error thrown in at its yield, which no try
\* encloses, so the lines after the yield are not run
request_body_raises ==
    /\ sess.pc = "yielded"
    /\ sess' = [sess EXCEPT !.pc = "raised", !.error = "caller"]
    /\ UNCHANGED <<now, table, written, tasks, hand, args, authvars, sidevars>>

\* the request the tasks of one session make side by side, persist left at
\* its default of True
SharedRequest == [method |-> "GET", url |-> [family |-> "tracks", id |-> "a"]]

\* CachedSession.request of task i up to the end of the awaited cache lookup
task_begin(i) ==
    /\ tasks[i].pc = "idle"
    /\ LET repository == get_repository_from_requests(SharedRequest)
           response == get_cached_response(SharedRequest, repository)
       IN  tasks' = [tasks EXCEPT ![i] =
                        [pc |-> IF response = NoResponse THEN "send"
                                ELSE "yielded",
                         response |-> response, calls |-> 0]]
    /\ UNCHANGED <<now, table, written, sess, hand, args, authvars, sidevars>>

\* CachedSession.request of task i: the awaited network call
task_send(i, status, body) ==
    /\ tasks[i].pc = "send"
    /\ tasks' = [tasks EXCEPT ![i] =
                    [pc |-> "yielded",
                     response |-> [cached |-> FALSE, status |-> status,
                                   data |-> body],
                     calls |-> tasks[i].calls + 1]]
    /\ UNCHANGED <<now, table, written, sess, hand, args, authvars, sidevars>>

\* a task that leaves the request without writing its response
task_finish_no_save(i) ==
    /\ tasks[i].pc = "yielded"
    /\ tasks' = [tasks EXCEPT ![i].pc = "done"]
    /\ UNCHANGED <<table, written>>
    /\ UNCHANGED <<now, sess, hand, args, authvars, sidevars>>

\* CachedSession.request of task i after its caller has used the response
task_finish(i) ==
    /\ tasks[i].pc = "yielded"
    /\ tasks' = [tasks EXCEPT ![i].pc = "done"]
    /\ IF ~tasks[i].response.cached
       THEN save_response(tasks[i].response, SharedRequest)
       ELSE UNCHANGED <<table, written>>
    /\ UNCHANGED <<now, sess, hand, args, authvars, sidevars>>

(***************************************************************************)
(* The request handler.  One logical call is in flight at a time:          *)
(*   PENDING -> (SEND) -> RESPONSE_RECEIVED                                *)
(*           -> SUCCESS | RETRYABLE -> SEND (loop) | FATAL                 *)
(* pc is "idle", "send", "received", "success" or "fatal".                 *)
(*   sends     the sends made for the call                                 *)
(*   attempts  the sends the backoff policy has counted                    *)
(*   backoff   the interval of the next backoff wait                       *)
(*   log       the response to each send, in order (history)               *)
(*   slept     the waits made: policy, seconds, and the send they followed *)
(***************************************************************************)
Ok == {200}
Transient == {408}
RateLimited == {429}
Breaking == {400}

NoHeader == [present |-> FALSE, secs |-> 0]
RetryAfter(w) == [present |-> TRUE, secs |-> w]
Headers == {NoHeader} \cup {RetryAfter(w) : w \in {1, timeout, timeout + 1}}

\* what the remote may answer: a success carries a document, and may carry
\* a hint all the same; a failure carries no document; message tells
\* whether the body holds an error message, {"error": {"message": ...}}
AllResponses ==
    [status : Ok, retry_after : {NoHeader, RetryAfter(timeout + 1)}, body : Docs,
     message : BOOLEAN]
        \cup [status : Transient \cup RateLimited \cup Breaking,
              retry_after : Headers, body : {0}, message : BOOLEAN]
\* the answers within one call: a transient failure tells of its error, a
\* rate limit does not
Responses ==
    {r \in AllResponses :
        /\ r.status \in Transient => r.message
        /\ r.status \in RateLimited => ~r.message}
NoAnswer == [status |-> 0, retry_after |-> NoHeader, body |-> 0,
             message |-> FALSE]

\* the token of the authoriser (its fields are told with the authoriser
\* below), and the token the handler of the tests is made with
NoToken ==
    [held |-> FALSE, access |-> 0, refresh |-> 0, error |-> FALSE,
     granted_at |-> 0, has_expiry |-> FALSE, expires_at |-> 0]
TestToken == [NoToken EXCEPT !.held = TRUE, !.access = 1]

header_key == "Authorization"
header_prefix == "Bearer "
NoHeaders == [raised |-> FALSE, key |-> "", prefix |-> "", value |-> 0]

\* APIAuthoriser.headers: a TypeError without a token or without a text at
\* the key path, else the header formatted from the token
headers(tok) ==
    IF ~tok.held \/ tok.access = 0
    THEN [NoHeaders EXCEPT !.raised = TRUE]
    ELSE [raised |-> FALSE, key |-> header_key, prefix |-> header_prefix,
          value |-> tok.access]

HandlerIdle ==
    [pc |-> "idle", sends |-> 0, attempts |-> 0, backoff |-> backoff_start,
     response |-> NoAnswer, result |-> 0, error |-> "", log |-> <<>>,
     slept |-> <<>>, logged |-> TRUE, headers |-> NoHeaders]

\* the sleeps of the call, kept for the sends that are logged
Slept(h, sleep) == IF h.logged THEN Append(h.slept, sleep) ELSE h.slept

\* a handle_unexpected_response that raises for every status outside 2xx
handle_unexpected_response_raises_all(response) ==
    [raise |-> response.status \notin Ok,
     code |-> IF response.status \notin Ok THEN response.status ELSE 0,
     found |-> response.message]

\* handle_unexpected_response: the API error it raises, which carries the
\* status code, for a status outside 2xx that has no handling of its own
\* (is neither transient nor a rate limit); else whether an error message
\* was found in the body
handle_unexpected_response(response) ==
    LET raises == /\ response.status \notin Ok
                  /\ response.status \notin Transient \cup RateLimited
    IN  [raise |-> raises,
         code |-> IF raises THEN response.status ELSE 0,
         found |-> response.message]

\* a handle_wait_time that sleeps whatever the hint
handle_wait_time_no_ceiling(response) ==
    IF ~response.retry_after.present
    THEN [raise |-> FALSE, waited |-> FALSE, secs |-> 0]
    ELSE [raise |-> FALSE, waited |-> TRUE, secs |-> response.retry_after.secs]

\* a handle_wait_time that takes a hint equal to the ceiling as too long
handle_wait_time_strict(response) ==
    IF ~response.retry_after.present
    THEN [raise |-> FALSE, waited |-> FALSE, secs |-> 0]
    ELSE IF response.retry_after.secs >= timeout
         THEN [raise |-> TRUE, waited |-> FALSE, secs |-> 0]
         ELSE [raise |-> FALSE, waited |-> TRUE, secs |-> response.retry_after.secs]

\* handle_wait_time: without the header nothing; a wait above the ceiling
\* raises; any other wait is slept and a retry is signalled
handle_wait_time(response) ==
    IF ~response.retry_after.present
    THEN [raise |-> FALSE, waited |-> FALSE, secs |-> 0]
    ELSE IF response.retry_after.secs > timeout
         THEN [raise |-> TRUE, waited |-> FALSE, secs |-> 0]
         ELSE [raise |-> FALSE, waited |-> TRUE, secs |-> response.retry_after.secs]

\* a backoff that gives up one attempt early
backoff_left_one_short(attempts) == attempts + 1 < backoff_count

\* a backoff that allows one attempt too many
backoff_left_off_by_one(attempts) == attempts <= backoff_count

\* the backoff policy: whether another attempt is left
backoff_left(attempts) == attempts < backoff_count

Sleep(policy, secs, after) == [policy |-> policy, secs |-> secs, after |-> after]

\* a new logical call
hCall ==
    /\ hand.pc \in {"idle", "success", "fatal"}
    /\ hand' = [HandlerIdle EXCEPT !.pc = "send", !.logged = hand.logged]
    /\ UNCHANGED <<now, table, written, sess, tasks, args, authvars, sidevars>>

\* a send that carries the headers of the first send of its call
hSend_snapshot(response) ==
    /\ hand.pc = "send"
    /\ IF headers(token).raised
       THEN hand' = [hand EXCEPT !.pc = "fatal", !.error = "TypeError"]
       ELSE IF hand.logged
       THEN /\ hand.sends < MaxSends
            /\ hand' = [hand EXCEPT !.pc = "received",
                                    !.sends = @ + 1,
                                    !.attempts = IF hand.sends = 0 THEN 1 ELSE @,
                                    !.response = response,
                                    !.log = Append(@, response),
                                    !.headers = IF hand.sends = 0
                                                THEN headers(token) ELSE @]
       ELSE hand' = [hand EXCEPT !.pc = "received",
                                 !.sends = IF @ < MaxSends THEN @ + 1 ELSE @,
                                 !.attempts = IF hand.sends = 0 THEN 1 ELSE @,
                                 !.response = response,
                                 !.headers = IF hand.sends = 0
                                             THEN headers(token) ELSE @]
    /\ UNCHANGED <<now, table, written, sess, tasks, args, authvars, sidevars>>

\* SEND: the request goes out and the remote answers.  The history of the
\* call (sends, log, slept) is kept for MaxSends sends while hand.logged;
\* a call that is not logged has no such bound, and its count of sends
\* stays at MaxSends once there
hSend(response) ==
    /\ hand.pc = "send"
    /\ IF headers(token).raised
       THEN \* no header can be formatted from the token: TypeError
            hand' = [hand EXCEPT !.pc = "fatal", !.error = "TypeError"]
       ELSE IF hand.logged
       THEN /\ hand.sends < MaxSends
            /\ hand' = [hand EXCEPT !.pc = "received",
                                    !.sends = @ + 1,
                                    !.attempts = IF hand.sends = 0 THEN 1 ELSE @,
                                    !.response = response,
                                    !.log = Append(@, response),
                                    !.headers = headers(token)]
       ELSE hand' = [hand EXCEPT !.pc = "received",
                                 !.sends = IF @ < MaxSends THEN @ + 1 ELSE @,
                                 !.attempts = IF hand.sends = 0 THEN 1 ELSE @,
                                 !.response = response,
                                 !.headers = headers(token)]
    /\ UNCHANGED <<now, table, written, sess, tasks, args, authvars, sidevars>>

\* a handler that looks at the rate-limit hint before the status
hHandle_hint_first ==
    /\ hand.pc = "received"
    /\ LET r == hand.response
           wait == handle_wait_time(r)
       IN  IF wait.raise
           THEN hand' = [hand EXCEPT !.pc = "fatal", !.error = "rate limit"]
           ELSE IF r.status \in Ok
           THEN hand' = [hand EXCEPT !.pc = "success", !.result = r.body]
           ELSE IF handle_unexpected_response(r).raise
           THEN hand' = [hand EXCEPT !.pc = "fatal", !.error = "unexpected"]
           ELSE IF wait.waited
           THEN hand' = [hand EXCEPT
                            !.pc = "send",
                            !.slept = Slept(hand, Sleep("rate", wait.secs, hand.sends))]
           ELSE IF backoff_left(hand.attempts)
           THEN hand' = [hand EXCEPT
                            !.pc = "send",
                            !.attempts = @ + 1,
                            !.backoff = @ * backoff_factor,
                            !.slept = Slept(hand, Sleep("backoff", hand.backoff, hand.sends))]
           ELSE hand' = [hand EXCEPT !.pc = "fatal", !.error = "max retries"]
    /\ UNCHANGED <<now, table, written, sess, tasks, args, authvars, sidevars>>

\* RESPONSE_RECEIVED: the response is classified
hHandle ==
    /\ hand.pc = "received"
    /\ LET r == hand.response
           wait == handle_wait_time(r)
       IN  IF r.status \in Ok
           THEN hand' = [hand EXCEPT !.pc = "success", !.result = r.body]
           ELSE IF handle_unexpected_response(r).raise
           THEN hand' = [hand EXCEPT !.pc = "fatal", !.error = "unexpected"]
           ELSE IF wait.raise
           THEN hand' = [hand EXCEPT !.pc = "fatal", !.error = "rate limit"]
           ELSE IF wait.waited
           THEN hand' = [hand EXCEPT
                            !.pc = "send",
                            !.slept = Slept(hand, Sleep("rate", wait.secs, hand.sends))]
           ELSE IF backoff_left(hand.attempts)
           THEN hand' = [hand EXCEPT
                            !.pc = "send",
                            !.attempts = @ + 1,
                            !.backoff = @ * backoff_factor,
                            !.slept = Slept(hand, Sleep("backoff", hand.backoff, hand.sends))]
           ELSE hand' = [hand EXCEPT !.pc = "fatal", !.error = "max retries"]
    /\ UNCHANGED <<now, table, written, sess, tasks, args, authvars, sidevars>>

(***************************************************************************)
(* The token authoriser.  A token is a record of one shape:                *)
(*   held        FALSE for None (no token), and for a file that is missing *)
(*   access      the "access_token" value, 0 when the key is missing       *)
(*   refresh     the "refresh_token" value, 0 when the key is missing      *)
(*   error       whether the key "error" is in the token                   *)
(*   granted_at, has_expiry, expires_at   the stamps of request_token      *)
(***************************************************************************)
\* what the token endpoint may answer: a grant, with or without a refresh
\* token and a lifetime, or an error document
Grants ==
    [access : 1..MaxAccess, refresh : {0, 1}, error : {FALSE},
     expires_in : {0, MaxLifetime}]
        \cup {[access |-> 0, refresh |-> 0, error |-> TRUE, expires_in |-> 0]}

\* the configurations: whether refresh_args, token_file_path and
\* test_args/test_condition are given, and test_expiry
Confs ==
    [refresh_args : BOOLEAN, token_file_path : BOOLEAN, test_args : BOOLEAN,
     test_expiry : {0, 1}]

\* the arguments of the token requests: whether user_args is given, the code
\* that auth_args["data"] holds (0 for none), the codes the listener has
\* received so far, each numbered by its turn, and the code the last token
\* request was posted with
NoArgs == [user_args |-> FALSE, code |-> 0, issued |-> 0, posted |-> 0]
UserArgs == [NoArgs EXCEPT !.user_args = TRUE]

\* _auth_user(**requests_args): nothing without user_args; else the browser
\* is opened, the listener receives a new code, and the code is written to
\* requests_args["data"], the dict that auth_args["data"] is
auth_user(a) ==
    IF ~a.user_args THEN a
    ELSE [a EXCEPT !.issued = @ + 1, !.code = a.issued + 1]

\* request_token(user, **requests_args) up to the post: _auth_user is called
\* when user is set, user_args is given and the arguments hold no code; the
\* refresh arguments carry no code
request_token_args(a, user) ==
    LET b == IF user /\ a.user_args /\ a.code = 0 THEN auth_user(a) ELSE a
    IN  [b EXCEPT !.posted = IF user THEN b.code ELSE 0]

\* a request_token that takes the refresh token of the answer as it is
request_token_drops_refresh(tok, response, t) ==
    [held |-> TRUE,
     access |-> response.access,
     refresh |-> response.refresh,
     error |-> response.error,
     granted_at |-> t,
     has_expiry |-> response.expires_in # 0,
     expires_at |-> IF response.expires_in # 0 THEN t + response.expires_in ELSE 0]

\* APIAuthoriser.request_token: the answer stamped with granted_at (and
\* expires_at when it declares a lifetime); the previous refresh token is
\* carried forward when the answer has none
request_token(tok, response, t) ==
    [held |-> TRUE,
     access |-> response.access,
     refresh |-> IF response.refresh # 0 THEN response.refresh
                 ELSE IF tok.held /\ tok.refresh # 0 THEN tok.refresh
                 ELSE 0,
     error |-> response.error,
     granted_at |-> t,
     has_expiry |-> response.expires_in # 0,
     expires_at |-> IF response.expires_in # 0 THEN t + response.expires_in ELSE 0]

\* a test that makes the probe request before it looks for the error marker
test_probe_first(tok, cfg, probe_ok, t) ==
    IF cfg.test_args /\ headers(tok).raised
    THEN [raised |-> TRUE, valid |-> FALSE, probed |-> FALSE]
    ELSE [raised |-> FALSE,
          valid |-> /\ ~tok.error
                    /\ (cfg.test_args => probe_ok)
                    /\ ((tok.has_expiry /\ cfg.test_expiry > 0) =>
                            t + cfg.test_expiry < tok.expires_at),
          probed |-> cfg.test_args]

\* APIAuthoriser.test: False at once on an error token; else the probe (whose
\* headers may raise) and the expiry test, all of which must pass.  probed
\* tells whether the probe request was made
test(tok, cfg, probe_ok, t) ==
    IF tok.error THEN [raised |-> FALSE, valid |-> FALSE, probed |-> FALSE]
    ELSE IF cfg.test_args /\ headers(tok).raised
    THEN [raised |-> TRUE, valid |-> FALSE, probed |-> FALSE]
    ELSE [raised |-> FALSE,
          valid |-> /\ (cfg.test_args => probe_ok)
                    /\ ((tok.has_expiry /\ cfg.test_expiry > 0) =>
                            t + cfg.test_expiry < tok.expires_at),
          probed |-> cfg.test_args]

\* a load_token that reads the file whether a path is configured or not
load_token_any_path(tok, cfg, stored) ==
    IF stored.held THEN stored ELSE tok

\* APIAuthoriser.load_token: the stored token when a path is configured and
\* the file exists, else the token held
load_token(tok, cfg, stored) ==
    IF cfg.token_file_path /\ stored.held THEN stored ELSE tok

\* an auth that re-authorises without trying the refresh
after_test_no_refresh(stage, valid, can_refresh) ==
    IF valid THEN "save"
    ELSE IF stage \in {1, 2} THEN "reauth"
    ELSE "raised"

\* an auth that requests a new token again when the last one is invalid
after_test_retry(stage, valid, can_refresh) ==
    IF valid THEN "save"
    ELSE IF stage = 1 /\ can_refresh THEN "refresh"
    ELSE "reauth"

\* an auth that saves and returns whatever the last test said
after_test_lenient(stage, valid, can_refresh) ==
    IF valid THEN "save"
    ELSE IF stage = 1 /\ can_refresh THEN "refresh"
    ELSE IF stage \in {1, 2} THEN "reauth"
    ELSE "save"

\* APIAuthoriser.auth after a test: where the call goes next.  stage 1 is
\* the test of the current token, 2 the test after the refresh, 3 the test
\* after the re-authorisation
after_test(stage, valid, can_refresh) ==
    IF valid THEN "save"
    ELSE IF stage = 1 /\ can_refresh THEN "refresh"
    ELSE IF stage \in {1, 2} THEN "reauth"
    ELSE "raised"

\* log holds what the call has done, in order (history):
\*   ev  "request_user", "request_refresh", "test" or "save"
\*   ok  the result of a test
\*   refresh  whether the token tested carried a refresh token
\* tested is the token of the last test, file0 the file when the call began
Event(ev, ok, refresh) == [ev |-> ev, ok |-> ok, refresh |-> refresh]

AuthIdle ==
    [pc |-> "idle", stage |-> 1, error |-> "", headers |-> NoHeaders,
     log |-> <<>>, tested |-> NoToken, file0 |-> NoToken]

\* auth(force_load, force_new) up to the first request or test
aCall(force_load, force_new) ==
    /\ auth.pc \in {"idle", "returned", "raised"}
    /\ LET loaded == IF (~token.held \/ force_load) /\ ~force_new
                     THEN load_token(token, conf, file)
                     ELSE token
       IN  /\ token' = loaded
           /\ auth' = [AuthIdle EXCEPT
                          !.pc = IF ~loaded.held \/ force_new
                                 THEN "generate" ELSE "test",
                          !.file0 = file]
    /\ UNCHANGED <<sidevars, now, table, written, sess, tasks, hand, args, conf, file>>

\* request_token(user=..., **args): the token endpoint answers
aRequestToken(response) ==
    /\ auth.pc \in {"generate", "refresh", "reauth"}
    /\ token' = request_token(token, response, now)
    /\ auth' = [auth EXCEPT
                   !.pc = "test",
                   !.stage = IF auth.pc = "refresh" THEN 2
                             ELSE IF auth.pc = "reauth" THEN 3 ELSE @,
                   !.log = Append(@, Event(IF auth.pc = "refresh"
                                           THEN "request_refresh"
                                           ELSE "request_user", TRUE, FALSE))]
    /\ args' = request_token_args(args, auth.pc # "refresh")
    /\ UNCHANGED <<sidevars, now, table, written, sess, tasks, hand, conf, file>>

\* request_token: requests.post fails and the exception leaves auth
aRequestFails ==
    /\ auth.pc \in {"generate", "refresh", "reauth"}
    /\ auth' = [auth EXCEPT !.pc = "raised", !.error = "transport"]
    /\ args' = request_token_args(args, auth.pc # "refresh")
    /\ UNCHANGED <<sidevars, now, table, written, sess, tasks, hand, conf, token, file>>

\* valid = self.test(), and what auth does with it
aTest(probe_ok) ==
    /\ auth.pc = "test"
    /\ LET r == test(token, conf, probe_ok, now)
           can_refresh == token.refresh # 0 /\ conf.refresh_args
           next == after_test(auth.stage, r.valid, can_refresh)
       IN  IF r.raised
           THEN auth' = [auth EXCEPT !.pc = "raised", !.error = "TypeError"]
           ELSE auth' = [auth EXCEPT
                            !.pc = next,
                            !.error = IF next = "raised"
                                      THEN "ConnectionError" ELSE @,
                            !.tested = token,
                            !.log = Append(@, Event("test", r.valid,
                                                    token.refresh # 0))]
    /\ UNCHANGED <<sidevars, now, table, written, sess, tasks, hand, args, conf, token, file>>

\* save_token() and return self.headers: open() raises without a path, and
\* the headers raise without a text at the key path
aSave ==
    /\ auth.pc = "save"
    /\ IF ~conf.token_file_path
       THEN /\ auth' = [auth EXCEPT !.pc = "raised", !.error = "TypeError"]
            /\ UNCHANGED file
       ELSE /\ file' = token
            /\ auth' = [auth EXCEPT
                           !.pc = IF headers(token).raised
                                  THEN "raised" ELSE "returned",
                           !.error = IF headers(token).raised
                                     THEN "TypeError" ELSE @,
                           !.headers = IF headers(token).raised
                                       THEN @ ELSE headers(token),
                           !.log = Append(@, Event("save", TRUE, FALSE))]
    /\ UNCHANGED <<sidevars, now, table, written, sess, tasks, hand, args, conf, token>>

\* the answers of the token endpoint while a handler is at work: grants of
\* one access token or of another, and the error document
FreshGrants ==
    [access : 1..(MaxAccess + 1), refresh : {0}, error : {FALSE},
     expires_in : {0}]
        \cup {[access |-> 0, refresh |-> 0, error |-> TRUE, expires_in |-> 0]}

\* the authoriser is given a new token, by a grant or a refresh, at a time
\* of its own
token_requested(response) ==
    /\ token' = request_token(token, response, now)
    /\ UNCHANGED <<now, table, written, sess, tasks, hand, args, conf, file, auth, sidevars>>

\* the authoriser as constructed by default: no token, no file
DefaultConf ==
    [refresh_args |-> TRUE, token_file_path |-> TRUE, test_args |-> TRUE,
     test_expiry |-> 0]

(***************************************************************************)
(* The cache's repositories.  The table of the model is the table of the   *)
(* family "tracks"; it lies in the database file, so its rows are there    *)
(* whether or not a repository object has been created over it.            *)
(***************************************************************************)

\* the connection as aiosqlite.connect gives it: alive, over a database file
\* with nothing committed; disk is the content a later connection to the
\* file finds, closed_by tells whose call closed the connection, returned
\* is what the last read or delete gave back
\* queue holds the statements handed to connection.execute and not yet run
\* by the connection's thread, in the order they were handed over
NoReturn ==
    [op |-> "", key |-> NoKey, value |-> None, flag |-> FALSE, count |-> 0,
     keys |-> {}]
Connected ==
    [alive |-> TRUE, disk |-> <<>>, closed_by |-> "", failed |-> FALSE,
     returned |-> NoReturn, queue |-> <<>>]

\* connection.commit(): the rows of the connection are in the file
commit(c) == [c EXCEPT !.disk = table]

\* a cache without repositories, and the cache the session works on
CacheEmpty == [repositories |-> <<>>, error |-> "", attempted |-> NoSettings]
CacheOpen ==
    [repositories |-> [n \in {"tracks"} |-> TracksSettings],
     error |-> "", attempted |-> NoSettings]

\* a create_repository that replaces the repository of a name already there
create_repository_replace(settings) ==
    /\ cache' = [repositories |->
                    [n \in DOMAIN cache.repositories \cup {settings.name} |->
                        IF n = settings.name THEN settings
                        ELSE cache.repositories[n]],
                 error |-> "", attempted |-> settings]
    /\ conn.alive
    /\ UNCHANGED <<now, table, written, sess, tasks, hand, args, authvars, probe, conn>>

\* SQLiteCache.create_repository: CacheError when the name is in the cache;
\* else CREATE TABLE IF NOT EXISTS, which keeps the rows of a table that is
\* there, and the repository is put in the map
create_repository(settings) ==
    /\ conn.alive
    /\ IF settings.name \in DOMAIN cache.repositories
       THEN /\ cache' = [cache EXCEPT !.error = "CacheError",
                                      !.attempted = settings]
            /\ UNCHANGED conn
       ELSE /\ cache' = [repositories |->
                            [n \in DOMAIN cache.repositories \cup {settings.name} |->
                                IF n = settings.name THEN settings
                                ELSE cache.repositories[n]],
                         error |-> "", attempted |-> settings]
            \* SQLiteTable.create ends with repository.commit()
            /\ conn' = commit(conn)
    /\ UNCHANGED <<now, table, written, sess, tasks, hand, args, authvars, probe>>

\* SQLiteCache.__aexit__, and the end of the scope of connect_with_path:
\* connection.__aexit__, which closes the connection and commits nothing,
\* whether the scope is left normally or by an exception; the rows written
\* and not committed are not in the file
cache_exit(failed) ==
    /\ conn.alive
    /\ conn' = [conn EXCEPT !.alive = FALSE, !.closed_by = "cache",
                            !.failed = failed]
    /\ table' = conn.disk
    /\ UNCHANGED <<now, written, sess, tasks, hand, args, authvars, cache, probe>>

\* SQLiteCache.close: connection.commit(), connection.close()
cache_close ==
    /\ conn.alive
    /\ conn' = [commit(conn) EXCEPT !.alive = FALSE, !.closed_by = "cache"]
    /\ UNCHANGED <<now, table, written, sess, tasks, hand, args, authvars, cache, probe>>

\* SQLiteTable.commit
table_commit(name) ==
    /\ conn.alive
    /\ name \in DOMAIN cache.repositories
    /\ conn.disk # table
    /\ conn' = commit(conn)
    /\ UNCHANGED <<now, table, written, sess, tasks, hand, args, authvars, cache, probe>>

\* SQLiteTable.close: self.commit(), then self.connection.close() on the
\* connection the repository was given by the cache
table_close(name) ==
    /\ conn.alive
    /\ name \in DOMAIN cache.repositories
    /\ conn' = [commit(conn) EXCEPT !.alive = FALSE, !.closed_by = name]
    /\ UNCHANGED <<now, table, written, sess, tasks, hand, args, authvars, cache, probe>>

\* SQLiteTable.__aexit__: self.connection.__aexit__, as the cache's own
table_exit(name, failed) ==
    /\ conn.alive
    /\ name \in DOMAIN cache.repositories
    /\ conn' = [conn EXCEPT !.alive = FALSE, !.closed_by = name,
                            !.failed = failed]
    /\ table' = conn.disk
    /\ UNCHANGED <<now, written, sess, tasks, hand, args, authvars, cache, probe>>

(***************************************************************************)
(* Calls on a repository, with what they give back kept in conn.returned.  *)
(***************************************************************************)
\* a delete_response whose DELETE leaves the expired rows alone
delete_response_unexpired(key) ==
    /\ conn.alive
    /\ LET hit == key \in DOMAIN table /\ NotExpired(table[key], now)
       IN  /\ table' = IF hit THEN Remove(table, key) ELSE table
           /\ written' = IF hit THEN [k \in DOMAIN written \ {key} |-> written[k]]
                         ELSE written
           /\ conn' = [conn EXCEPT !.returned =
                          [NoReturn EXCEPT !.op = "delete", !.key = key,
                                           !.flag = hit]]
    /\ UNCHANGED <<now, sess, tasks, hand, args, authvars, cache, probe>>

\* SQLiteTable.delete_response: DELETE of the row of the key, and whether
\* the statement's rowcount is above 0
delete_response(key) ==
    /\ conn.alive
    /\ table' = Remove(table, key)
    /\ written' = [k \in DOMAIN written \ {key} |-> written[k]]
    /\ conn' = [conn EXCEPT !.returned =
                   [NoReturn EXCEPT !.op = "delete", !.key = key,
                                    !.flag = key \in DOMAIN table]]
    /\ UNCHANGED <<now, sess, tasks, hand, args, authvars, cache, probe>>

\* a get_response that clears the row it finds expired
call_get_response_evicting(key) ==
    /\ conn.alive
    /\ conn' = [conn EXCEPT !.returned =
                   [NoReturn EXCEPT !.op = "get", !.key = key,
                                    !.value = get_response(key)]]
    /\ table' = IF key \in DOMAIN table /\ ~NotExpired(table[key], now)
                THEN Remove(table, key) ELSE table
    /\ UNCHANGED <<now, written, sess, tasks, hand, args, authvars, cache, probe>>

\* a call of SQLiteTable.get_response
call_get_response(key) ==
    /\ conn.alive
    /\ conn' = [conn EXCEPT !.returned =
                   [NoReturn EXCEPT !.op = "get", !.key = key,
                                    !.value = get_response(key)]]
    /\ UNCHANGED <<now, table, written, sess, tasks, hand, args, authvars, cache, probe>>

\* a call of SQLiteTable.contains
call_contains(key) ==
    /\ conn.alive
    /\ conn' = [conn EXCEPT !.returned =
                   [NoReturn EXCEPT !.op = "contains", !.key = key,
                                    !.flag = contains(key)]]
    /\ UNCHANGED <<now, table, written, sess, tasks, hand, args, authvars, cache, probe>>

\* a call of SQLiteTable.count
call_count(expired) ==
    /\ conn.alive
    /\ conn' = [conn EXCEPT !.returned =
                   [NoReturn EXCEPT !.op = "count", !.flag = expired,
                                    !.count = count(expired)]]
    /\ UNCHANGED <<now, table, written, sess, tasks, hand, args, authvars, cache, probe>>

\* SQLiteTable.__aiter__, run to its end: the keys of the rows it yields
call_aiter ==
    /\ conn.alive
    /\ conn' = [conn EXCEPT !.returned =
                   [NoReturn EXCEPT !.op = "iter",
                                    !.keys = {k \in DOMAIN table :
                                                NotExpired(table[k], now)}]]
    /\ UNCHANGED <<now, table, written, sess, tasks, hand, args, authvars, cache, probe>>

\* a call of SQLiteTable.get_key_from_request
call_get_key_from_request(request) ==
    /\ conn' = [conn EXCEPT !.returned =
                   [NoReturn EXCEPT !.op = "key",
                                    !.key = get_key_from_request(request)]]
    /\ UNCHANGED <<now, table, written, sess, tasks, hand, args, authvars, cache, probe>>

(***************************************************************************)
(* Calls in flight on one connection.  A coroutine that awaits             *)
(* connection.execute hands the statement, with its parameters, to the     *)
(* connection's thread and is suspended; the thread runs the statements    *)
(* one at a time in the order they came.                                   *)
(***************************************************************************)
Statement(op, key, value, at) ==
    [op |-> op, key |-> key, value |-> value, at |-> at]

\* the keys the concurrent calls are made on
HotKeys == {k \in Keys : k[2] = "a"}

\* _set_item_from_key_value_pair up to its await: the parameters are made
\* and INSERT OR REPLACE is handed to the connection
set_called(key, value) ==
    /\ conn.alive
    /\ Len(conn.queue) < MaxPending
    /\ conn' = [conn EXCEPT !.queue = Append(@, Statement("set", key, value, now))]
    /\ UNCHANGED <<now, table, written, sess, tasks, hand, args, authvars, cache, probe>>

\* get_response up to its await: SELECT is handed to the connection
get_called(key) ==
    /\ conn.alive
    /\ Len(conn.queue) < MaxPending
    /\ conn' = [conn EXCEPT !.queue = Append(@, Statement("get", key, None, now))]
    /\ UNCHANGED <<now, table, written, sess, tasks, hand, args, authvars, cache, probe>>

\* what SELECT with the parameter at gives for key, deserialized
selected(key, at) ==
    IF /\ key \in DOMAIN table
       /\ table[key].data # None
       /\ NotExpired(table[key], at)
    THEN deserialize(table[key].data)
    ELSE None

\* a thread that runs REPLACE of a stored key as DELETE, and hands the
\* INSERT over as a statement of its own
run_statement_in_two ==
    /\ conn.alive
    /\ conn.queue # <<>>
    /\ LET st == Head(conn.queue)
       IN  IF st.op = "set" /\ st.key \in DOMAIN table
           THEN /\ table' = Remove(table, st.key)
                /\ conn' = [conn EXCEPT
                               !.queue = Append(Tail(@), [st EXCEPT !.op = "insert"])]
                /\ UNCHANGED written
           ELSE IF st.op \in {"set", "insert"}
           THEN /\ table' = Upsert(table, st.key, st.value, st.at)
                /\ written' = [k \in DOMAIN written \cup {st.key} |->
                                  IF k = st.key THEN st.value ELSE written[k]]
                /\ conn' = [conn EXCEPT !.queue = Tail(@)]
           ELSE /\ conn' = [conn EXCEPT
                               !.queue = Tail(@),
                               !.returned = [NoReturn EXCEPT
                                               !.op = "get", !.key = st.key,
                                               !.value = selected(st.key, st.at)]]
                /\ UNCHANGED <<table, written>>
    /\ UNCHANGED <<now, sess, tasks, hand, args, authvars, cache, probe>>

\* the connection's thread runs the statement that came first, whole: the
\* row of INSERT OR REPLACE is written, or the row of SELECT is read and
\* given back to the coroutine of get_response
run_statement ==
    /\ conn.alive
    /\ conn.queue # <<>>
    /\ LET st == Head(conn.queue)
       IN  IF st.op = "set"
           THEN /\ table' = Upsert(table, st.key, st.value, st.at)
                /\ written' = [k \in DOMAIN written \cup {st.key} |->
                                  IF k = st.key THEN st.value ELSE written[k]]
                /\ conn' = [conn EXCEPT !.queue = Tail(@)]
           ELSE /\ conn' = [conn EXCEPT
                               !.queue = Tail(@),
                               !.returned = [NoReturn EXCEPT
                                               !.op = "get", !.key = st.key,
                                               !.value = selected(st.key, st.at)]]
                /\ UNCHANGED <<table, written>>
    /\ UNCHANGED <<now, sess, tasks, hand, args, authvars, cache, probe>>


NoProbe == [fn |-> "none"]


\* the calls of get_key_from_request to make: one repository, two descriptors
KeyProbes ==
    {[fn |-> "key", done |-> FALSE, settings |-> st, a |-> a, b |-> b,
      key_a |-> NoKey, key_b |-> NoKey] :
        st \in Settings, a \in ProbeRequests, b \in ProbeRequests}

\* the calls of handle_unexpected_response to make: one response
NoOutcome == [raise |-> FALSE, code |-> 0, found |-> FALSE]
ClassifyProbes ==
    {[fn |-> "unexpected", done |-> FALSE, response |-> r, out |-> NoOutcome] :
        r \in AllResponses}

\* the handler classifies the response
classify ==
    /\ probe.fn = "unexpected"
    /\ ~probe.done
    /\ probe' = [probe EXCEPT
                    !.done = TRUE,
                    !.out = handle_unexpected_response(probe.response)]
    /\ UNCHANGED <<now, table, written, sess, tasks, hand, args, authvars, cache, conn>>

\* the repository derives the key of both descriptors
derive_keys ==
    /\ probe.fn = "key"
    /\ ~probe.done
    /\ probe' = [probe EXCEPT
                    !.done = TRUE,
                    !.key_a = key_from_request(probe.settings, probe.a),
                    !.key_b = key_from_request(probe.settings, probe.b)]
    /\ UNCHANGED <<now, table, written, sess, tasks, hand, args, authvars, cache, conn>>

Init ==
    /\ now = 0
    /\ table = <<>>
    /\ written = <<>>
    /\ sess = Idle
    /\ tasks = NoTasks
    /\ args = NoArgs
    /\ hand = HandlerIdle
    /\ conf = DefaultConf
    /\ token = TestToken
    /\ file = NoToken
    /\ auth = AuthIdle
    /\ cache = CacheOpen
    /\ probe = NoProbe
    /\ conn = Connected

\* a cache opened over its database with no repository created yet
InitRepos ==
    /\ now = 0
    /\ table = <<>>
    /\ written = <<>>
    /\ sess = Idle
    /\ tasks = NoTasks
    /\ args = NoArgs
    /\ hand = HandlerIdle
    /\ conf = DefaultConf
    /\ token = NoToken
    /\ file = NoToken
    /\ auth = AuthIdle
    /\ cache = CacheEmpty
    /\ probe = NoProbe
    /\ conn = Connected

\* a pure function about to be called with arguments of the bounded sets
InitPure ==
    /\ now = 0
    /\ table = <<>>
    /\ written = <<>>
    /\ sess = Idle
    /\ tasks = NoTasks
    /\ args = NoArgs
    /\ hand = HandlerIdle
    /\ conf = DefaultConf
    /\ token = NoToken
    /\ file = NoToken
    /\ auth = AuthIdle
    /\ cache = CacheOpen
    /\ probe \in KeyProbes \cup ClassifyProbes
    /\ conn = Connected

\* an authoriser constructed with any configuration, over a file that is
\* missing or holds a token saved earlier
InitAuth ==
    /\ now = 0
    /\ table = <<>>
    /\ written = <<>>
    /\ sess = Idle
    /\ tasks = NoTasks
    /\ args = NoArgs
    /\ hand = HandlerIdle
    /\ conf \in Confs
    /\ token = NoToken
    /\ file \in {NoToken} \cup
               {request_token(NoToken, g, 0) : g \in {x \in Grants : ~x.error}}
    /\ auth = AuthIdle
    /\ cache = CacheOpen
    /\ probe = NoProbe
    /\ conn = Connected

NextCache ==
    \/ \E k \in Keys, v \in Payloads : Set(k, v)
    \/ \E k \in Keys : Delete(k)
    \/ Tick
    \/ \E m \in Methods, u \in Urls, p \in BOOLEAN : request_begin(m, u, p)
    \/ \E st \in Statuses, b \in Bodies : request_send(st, b)
    \/ request_finish

SpecCache == Init /\ [][NextCache]_vars

\* the handler's requests with use_cache on and off, over the cache
NextBypass ==
    \/ NextCache
    \/ \E m \in Methods, u \in Urls, p \in BOOLEAN : request_bypass(m, u, p)

SpecBypass == Init /\ [][NextBypass]_vars

\* the cached session over a repository whose file may be damaged
NextCorrupt ==
    \/ \E m \in Methods, u \in Urls, p \in BOOLEAN : request_begin(m, u, p)
    \/ \E st \in Statuses, b \in Bodies : request_send(st, b)
    \/ request_finish
    \/ \E k \in Keys : Corrupt(k)
    \/ Tick

SpecCorrupt == Init /\ [][NextCorrupt]_vars

\* the cached session over a cache that may be closed under it
NextWrite ==
    \/ \E m \in Methods, u \in Urls, p \in BOOLEAN : request_begin(m, u, p)
    \/ \E st \in Statuses, b \in Bodies : request_send(st, b)
    \/ request_finish
    \/ cache_close
    \/ Tick

SpecWrite == Init /\ [][NextWrite]_vars

\* the cached session under a caller whose handling of a response may raise
NextCaller ==
    \/ \E m \in Methods, u \in Urls, p \in BOOLEAN : request_begin(m, u, p)
    \/ \E st \in Statuses, b \in Bodies : request_send(st, b)
    \/ request_finish
    \/ request_body_raises
    \/ Tick

SpecCaller == Init /\ [][NextCaller]_vars

\* the requests of one session for one key, run side by side
NextMany ==
    \/ \E i \in Tasks : task_begin(i)
    \/ \E i \in Tasks, st \in Statuses, b \in Bodies : task_send(i, st, b)
    \/ \E i \in Tasks : task_finish(i)
    \/ Tick

SpecMany == Init /\ [][NextMany]_vars

NextHandler ==
    \/ hCall
    \/ \E r \in Responses : hSend(r)
    \/ hHandle

SpecHandler == Init /\ [][NextHandler]_vars

NextAuth ==
    \/ \E fl \in BOOLEAN, fn \in BOOLEAN : aCall(fl, fn)
    \/ \E g \in Grants : aRequestToken(g)
    \/ aRequestFails
    \/ \E ok \in BOOLEAN : aTest(ok)
    \/ aSave
    \/ Tick

SpecAuth == InitAuth /\ [][NextAuth]_vars

\* the authoriser with a user-authorisation step, no token and no file
InitUser ==
    /\ now = 0
    /\ table = <<>>
    /\ written = <<>>
    /\ sess = Idle
    /\ tasks = NoTasks
    /\ hand = HandlerIdle
    /\ args = UserArgs
    /\ conf = DefaultConf
    /\ token = NoToken
    /\ file = NoToken
    /\ auth = AuthIdle
    /\ cache = CacheOpen
    /\ probe = NoProbe
    /\ conn = Connected

SpecUser == InitUser /\ [][NextAuth]_vars

NextRepos ==
    \/ \E s \in Settings : create_repository(s)
    \/ \E k \in Keys, v \in Payloads : Set(k, v)
    \/ \E k \in Keys : Delete(k)

SpecRepos == InitRepos /\ [][NextRepos]_vars

\* a cache within its scope, and the ways the scope and the connection end
NextScope ==
    \/ \E s \in Settings : create_repository(s)
    \/ \E k \in Keys, v \in Payloads : Set(k, v)
    \/ \E k \in Keys : Delete(k)
    \/ \E f \in BOOLEAN : cache_exit(f)
    \/ cache_close
    \/ \E n \in Families : table_commit(n)
    \/ \E n \in Families : table_close(n)
    \/ \E n \in Families, f \in BOOLEAN : table_exit(n, f)

SpecScope == InitRepos /\ [][NextScope]_vars

\* the handler under a scheduler that runs it on: a response that has come
\* is handled, a request that is due is sent and answered
\* the handler at rest, the history of its calls not kept
InitLive ==
    /\ now = 0
    /\ table = <<>>
    /\ written = <<>>
    /\ sess = Idle
    /\ tasks = NoTasks
    /\ args = NoArgs
    /\ hand = [HandlerIdle EXCEPT !.logged = FALSE]
    /\ conf = DefaultConf
    /\ token = TestToken
    /\ file = NoToken
    /\ auth = AuthIdle
    /\ cache = CacheOpen
    /\ probe = NoProbe
    /\ conn = Connected

SpecHandlerLive ==
    /\ InitLive
    /\ [][NextHandler]_vars
    /\ WF_vars(hHandle)
    /\ WF_vars(\E r \in Responses : hSend(r))

\* calls made on one key of a repository while others are in flight
NextConc ==
    \/ \E k \in HotKeys, v \in Payloads : set_called(k, v)
    \/ \E k \in HotKeys : get_called(k)
    \/ run_statement

SpecConc == Init /\ [][NextConc]_vars

\* the calls on one repository, one after the other, as time passes
NextOps ==
    \/ \E k \in Keys, v \in Payloads : Set(k, v)
    \/ \E k \in Keys : delete_response(k)
    \/ \E k \in Keys : call_get_response(k)
    \/ \E k \in Keys : call_contains(k)
    \/ \E e \in BOOLEAN : call_count(e)
    \/ call_aiter
    \/ \E r \in Requests : call_get_key_from_request(r)
    \/ Tick

SpecOps == Init /\ [][NextOps]_vars

\* the handler at work while the authoriser's token is renewed
NextFresh ==
    \/ hCall
    \/ \E r \in Responses : hSend(r)
    \/ hHandle
    \/ \E g \in FreshGrants : token_requested(g)

SpecFresh == InitLive /\ [][NextFresh]_vars

NextPure ==
    \/ derive_keys
    \/ classify

SpecPure == InitPure /\ [][NextPure]_vars

(***************************************************************************)
(* Claims about the cache.                                                 *)
(***************************************************************************)
\* the session call has looked the cache up
LookedUp == sess.pc \in {"send", "yielded", "done", "raised"}

\* the session call was served from the cache without a network call, with
\* the data of the row it found
ServedFromCache ==
    /\ sess.pc \in {"yielded", "done"}
    /\ sess.calls = 0
    /\ sess.response.cached
    /\ sess.response.data = sess.stored

Alive(k) == now < fromisoformat(table[k].expires_at)

\* C2 as claimed: while now < expires_at, get(k) returns the value v of the
\* last set(k, v)
C2_RoundTripAnyPayload ==
    \A k \in DOMAIN written : Alive(k) => get_response(k) = written[k]

\* C2, amended: while now < expires_at, get(k) returns v when v is a parsed
\* document, the document that v encodes when v is a JSON text, and absent
\* when v is a text that is not valid JSON
C2_RoundTrip ==
    \A k \in DOMAIN written :
        Alive(k) =>
            LET v == written[k]
            IN  get_response(k) =
                    IF v.type = "dict" THEN v
                    ELSE IF v.valid THEN Dict(v.doc)
                    ELSE None

C2_Witness ==
    \E k \in DOMAIN written :
        /\ Alive(k) /\ now > fromisoformat(table[k].cached_at)
        /\ written[k].type = "dict"
        /\ get_response(k) = written[k]

\* C3: a row with expires_at <= now, the boundary included, is a miss:
\* get returns absent and contains is false
C3_ExpiryIsMiss ==
    \A k \in DOMAIN table :
        fromisoformat(table[k].expires_at) <= now =>
            /\ get_response(k) = None
            /\ ~contains(k)

C3_Witness ==
    \E k \in DOMAIN table :
        /\ fromisoformat(table[k].expires_at) = now
        /\ table[k].data # None
        /\ get_response(k) = None
        /\ ~contains(k)

(***************************************************************************)
(* Claims about the request handler.                                       *)
(***************************************************************************)
\* the response to send i has been classified
Handled(i) == i < hand.sends \/ (i = hand.sends /\ hand.pc # "received")

\* a transient failure that carries no rate-limit hint
PlainTransient(r) == r.status \in Transient /\ ~r.retry_after.present

\* every answer of the call so far was a plain transient failure
AlwaysTransient ==
    /\ hand.sends >= 1
    /\ \A i \in 1..Len(hand.log) : PlainTransient(hand.log[i])

\* the waits that followed send i
SleptAfter(i) == {j \in 1..Len(hand.slept) : hand.slept[j].after = i}

\* C4: against an endpoint that answers every send with a transient failure
\* the call ends fatally after exactly backoff_count sends: no further send
\* is made, and it does not end before
C4_BackoffTermination ==
    AlwaysTransient =>
        /\ hand.sends <= backoff_count
        /\ hand.pc = "fatal" =>
              hand.sends = backoff_count /\ hand.error = "max retries"
        /\ (hand.sends = backoff_count /\ Handled(hand.sends)) =>
              hand.pc = "fatal"

C4_Witness ==
    /\ AlwaysTransient
    /\ hand.pc = "fatal"
    /\ hand.sends = backoff_count
    /\ Len(hand.slept) = backoff_count - 1

\* C5: when the first k-1 sends are answered with a plain transient failure
\* and the k-th with success, k <= backoff_count, the call returns the body
\* of the k-th answer without an error after exactly k sends; until then the
\* call goes on sending, and no send follows a success
C5_BackoffSuccess ==
    LET k == Len(hand.log)
    IN  /\ ( /\ k >= 1 /\ k <= backoff_count
             /\ Handled(k)
             /\ hand.log[k].status \in Ok
             /\ \A i \in 1..(k - 1) : PlainTransient(hand.log[i]) ) =>
                /\ hand.pc = "success"
                /\ hand.result = hand.log[k].body
                /\ hand.error = ""
                /\ hand.sends = k
        /\ (AlwaysTransient /\ k < backoff_count /\ Handled(k)) =>
                hand.pc = "send" /\ hand.error = ""
        /\ \A i \in 1..(k - 1) : hand.log[i].status \notin Ok

C5_Witness ==
    /\ hand.pc = "success"
    /\ hand.sends = backoff_count
    /\ \A i \in 1..(backoff_count - 1) : PlainTransient(hand.log[i])
    /\ hand.result = hand.log[backoff_count].body

\* the response is handed to handle_wait_time: its status is no success and
\* raises no API error of its own
ReachesWait(r) == r.status \notin Ok /\ ~handle_unexpected_response(r).raise

\* C6: a response handed to handle_wait_time with a hint w <= timeout is
\* followed by exactly one wait, of w seconds, and then by the re-send; a
\* response without the header is followed by no rate-limit wait
C6_WaitBelowCeiling ==
    \A i \in 1..Len(hand.log) :
        LET r == hand.log[i]
        IN  (Handled(i) /\ ReachesWait(r)) =>
              /\ (r.retry_after.present /\ r.retry_after.secs <= timeout) =>
                    /\ Cardinality(SleptAfter(i)) = 1
                    /\ \A j \in SleptAfter(i) :
                          /\ hand.slept[j].policy = "rate"
                          /\ hand.slept[j].secs = r.retry_after.secs
                    /\ hand.sends > i \/ (hand.sends = i /\ hand.pc = "send")
              /\ ~r.retry_after.present =>
                    \A j \in SleptAfter(i) : hand.slept[j].policy # "rate"

C6_Witness ==
    \E i \in 1..Len(hand.log) :
        /\ hand.log[i].status \in RateLimited
        /\ hand.log[i].retry_after = RetryAfter(timeout)
        /\ hand.sends = i + 1
        /\ \E j \in SleptAfter(i) : hand.slept[j] = Sleep("rate", timeout, i)

\* C7: a rate-limited response with a hint above timeout ends the call with
\* an API error at once: no wait follows it and no further send is made
C7_WaitAboveCeiling ==
    \A i \in 1..Len(hand.log) :
        LET r == hand.log[i]
        IN  ( /\ Handled(i)
              /\ r.status \in RateLimited
              /\ r.retry_after.present /\ r.retry_after.secs > timeout ) =>
                /\ hand.pc = "fatal"
                /\ hand.error = "rate limit"
                /\ hand.sends = i
                /\ SleptAfter(i) = {}

C7_Witness ==
    /\ hand.pc = "fatal"
    /\ hand.sends >= 1
    /\ hand.response.status \in RateLimited
    /\ hand.response.retry_after = RetryAfter(timeout + 1)
    /\ hand.error = "rate limit"

(***************************************************************************)
(* Claims about the token authoriser.                                      *)
(***************************************************************************)
\* the places of the events of one kind in the log of the call
EventsOf(ev) == {i \in 1..Len(auth.log) : auth.log[i].ev = ev}

\* the place of the first test of the call (0 when there is none yet)
FirstTest ==
    IF EventsOf("test") = {} THEN 0
    ELSE CHOOSE i \in EventsOf("test") : \A j \in EventsOf("test") : i <= j

\* the first test of the call failed on a token that carries a refresh
\* token, and a refresh flow is configured
RefreshDue ==
    /\ FirstTest # 0
    /\ ~auth.log[FirstTest].ok
    /\ auth.log[FirstTest].refresh
    /\ conf.refresh_args

\* the refresh is what follows the first test (unless the call has not got
\* that far, or the refresh request itself failed)
RefreshComesNext ==
    IF Len(auth.log) = FirstTest
    THEN auth.pc = "refresh" \/ (auth.pc = "raised" /\ auth.error = "transport")
    ELSE auth.log[FirstTest + 1].ev = "request_refresh"

\* the test after the refresh passed
RefreshedValid ==
    /\ Len(auth.log) >= FirstTest + 2
    /\ auth.log[FirstTest + 2].ev = "test"
    /\ auth.log[FirstTest + 2].ok

\* C8 as claimed: when the first test fails on a token with a refresh token
\* and a refresh flow is configured, the refresh comes before any full
\* re-authorisation, and if the refreshed token passes the test the full
\* authorisation flow is not invoked at all in the call
C8_NoFullFlowAtAll ==
    RefreshDue =>
        /\ RefreshComesNext
        /\ RefreshedValid => EventsOf("request_user") = {}

\* C8, amended: ... and if the refreshed token passes the test the full
\* authorisation flow is not invoked after the failed test (it may have run
\* before it, in step 2, when no token was held or force_new was set)
C8_RefreshCascade ==
    RefreshDue =>
        /\ RefreshComesNext
        /\ RefreshedValid =>
              \A i \in EventsOf("request_user") : i < FirstTest

C8_Witness ==
    /\ RefreshDue
    /\ RefreshedValid
    /\ auth.pc = "returned"
    /\ EventsOf("request_user") # {}

\* the test after the full re-authorisation of step 5 failed
StillInvalid ==
    /\ auth.stage = 3
    /\ Len(auth.log) >= 1
    /\ auth.log[Len(auth.log)].ev = "test"
    /\ ~auth.log[Len(auth.log)].ok

\* C9: when the token fails the test after the re-authorisation of step 5,
\* auth raises, returns no headers and leaves the file as it was; no call
\* makes more than three token requests or more than three tests
C9_CredentialFailureFatal ==
    /\ StillInvalid =>
          /\ auth.pc = "raised"
          /\ auth.error = "ConnectionError"
          /\ auth.headers = NoHeaders
          /\ EventsOf("save") = {}
          /\ file = auth.file0
    /\ Cardinality(EventsOf("request_user") \cup EventsOf("request_refresh")) <= 3
    /\ Cardinality(EventsOf("test")) <= 3

C9_Witness ==
    /\ StillInvalid
    /\ auth.pc = "raised"
    /\ Cardinality(EventsOf("request_user") \cup EventsOf("request_refresh")) = 3
    /\ Cardinality(EventsOf("test")) = 3
    /\ token # auth.file0

\* C10: when auth returns headers, the last test of the call passed and was
\* made on the token now held, that token is what the file holds, and the
\* headers are formatted from it
C10_AuthoriseSuccess ==
    auth.pc = "returned" =>
        LET n == Len(auth.log)
        IN  /\ n >= 2
            /\ auth.log[n].ev = "save"
            /\ auth.log[n - 1].ev = "test" /\ auth.log[n - 1].ok
            /\ auth.tested = token
            /\ file = token
            /\ auth.headers = [raised |-> FALSE, key |-> "Authorization",
                               prefix |-> "Bearer ", value |-> token.access]
            /\ token.held /\ token.access # 0 /\ ~token.error

C10_Witness ==
    /\ auth.pc = "returned"
    /\ auth.stage = 3
    /\ file = token
    /\ file # auth.file0

(***************************************************************************)
(* Claims about the cache's repositories.                                  *)
(***************************************************************************)
\* C11: creating a repository under a name the cache already has raises
\* CacheError and leaves the repository map (names and settings) and the
\* stored entries as they were
C11_NoDuplicateRepositories ==
    [][(cache' # cache /\ cache'.attempted.name \in DOMAIN cache.repositories)
        => /\ cache'.error = "CacheError"
           /\ cache'.repositories = cache.repositories
           /\ table' = table]_vars

\* a refused creation with other settings, over a repository with entries
C11_Witness ==
    /\ cache.error = "CacheError"
    /\ cache.attempted.name = "tracks"
    /\ "tracks" \in DOMAIN cache.repositories
    /\ cache.repositories["tracks"] # cache.attempted
    /\ DOMAIN table # {}

\* the two descriptors agree on all that the key is made of
SameKeyParts ==
    /\ probe.a.method = probe.b.method
    /\ get_id(probe.a.url) = get_id(probe.b.url)
    /\ probe.settings.paginated =>
        /\ get_offset(probe.a.url) = get_offset(probe.b.url)
        /\ get_limit(probe.a.url) = get_limit(probe.b.url)

\* C12: within one repository two descriptors derive the same key exactly
\* when they have the same method and the same id and, when the family is
\* paginated, the same offset and the same page size; another query
\* parameter never changes the key
C12_KeyDerivation ==
    (probe.fn = "key" /\ probe.done) =>
        /\ SameKeyParts => probe.key_a = probe.key_b
        /\ (probe.key_a # NoKey /\ probe.key_b # NoKey)
            => (probe.key_a = probe.key_b <=> SameKeyParts)

\* two pages of one resource of a paginated family, keyed apart
C12_Witness ==
    /\ probe.fn = "key" /\ probe.done
    /\ probe.settings.paginated
    /\ probe.a.method = probe.b.method
    /\ get_id(probe.a.url) = get_id(probe.b.url)
    /\ get_limit(probe.a.url) = get_limit(probe.b.url)
    /\ get_offset(probe.a.url) # get_offset(probe.b.url)
    /\ probe.a.url.other # probe.b.url.other
    /\ probe.key_a # NoKey /\ probe.key_b # NoKey
    /\ probe.key_a # probe.key_b

\* the keys set and not deleted since, and those of them whose time to live
\* has not elapsed
StoredKeys == DOMAIN written
LiveKeys == {k \in DOMAIN table : fromisoformat(table[k].expires_at) > now}

\* C13: count with the expired included is the number of stored entries;
\* count without them is the number of stored entries with expires_at > now
C13_Count ==
    /\ count(TRUE) = Cardinality(StoredKeys)
    /\ count(TRUE) = Cardinality(DOMAIN table)
    /\ count(FALSE) = Cardinality(LiveKeys)

\* one entry whose time to live has elapsed beside one that is alive
C13_Witness ==
    /\ count(TRUE) = 2
    /\ count(FALSE) = 1
    /\ \E k \in DOMAIN table : fromisoformat(table[k].expires_at) = now

(***************************************************************************)
(* Claims about the session.                                               *)
(***************************************************************************)
\* the session call has its response, and not from the cache
NotServedFromCache ==
    /\ sess.pc \in {"yielded", "done", "raised"}
    /\ sess.error # "InvalidURL"
    /\ ~sess.response.cached

\* C14: a request that is not served from the cache (no repository, no
\* entry, an expired entry) makes exactly one network call, and no request
\* makes more than one
C14_OneNetworkCall ==
    /\ sess.calls <= 1
    /\ NotServedFromCache => sess.calls = 1
    /\ (LookedUp /\ sess.error # "InvalidURL" /\ ~sess.had_entry
            /\ sess.pc # "send") => sess.calls = 1

\* a finished request that found only an expired entry and called once
C14_Witness ==
    /\ sess.pc = "done"
    /\ sess.calls = 1
    /\ ~sess.had_entry
    /\ ~sess.persist
    /\ sess.repository # ""
    /\ get_key_from_request(sess.request) \in DOMAIN table
    /\ fromisoformat(table[get_key_from_request(sess.request)].expires_at) <= now

\* the step in which a request that was asked to persist a response of the
\* network, with a repository resolved, finishes
FinishesPersisting ==
    /\ sess.pc = "yielded" /\ sess'.pc \in {"done", "raised"}
    /\ sess.persist
    /\ ~sess.response.cached
    /\ sess.repository # ""

\* when the step is over the repository holds the response under the key of
\* the request, and the same request would be served it from the cache
HeldAndHit ==
    LET key == get_key_from_request(sess.request)
    IN  /\ key \in DOMAIN table'
        /\ written'[key] = sess.response.data
        /\ get_cached_response(sess.request, sess.repository)' # NoResponse
        /\ get_cached_response(sess.request, sess.repository)'.data
                = sess.response.data

C16_NoWriteWithoutFreshPersist ==
    [][(sess' # sess /\ (~sess'.persist \/ sess'.response.cached))
        => /\ table' = table
           /\ written' = written
           /\ cache' = cache]_vars

\* a finished cache hit of a request asked to persist, on a row that still
\* carries the earlier time of its write
C16_Witness ==
    /\ sess.pc = "done"
    /\ sess.persist /\ sess.response.cached /\ sess.calls = 0
    /\ get_key_from_request(sess.request) \in DOMAIN table
    /\ table[get_key_from_request(sess.request)].data = sess.stored
    /\ fromisoformat(table[get_key_from_request(sess.request)].cached_at) < now

\* C17: after a request whose network response has an error status the
\* repository holds no entry for the key of the request, whatever persist is
C17_ErrorsNotCached ==
    [][(/\ sess.pc = "yielded" /\ sess'.pc \in {"done", "raised"}
        /\ ~sess.response.cached
        /\ sess.response.status \in ErrorStatuses)
        => get_key_from_request(sess.request) \notin DOMAIN table']_vars

\* a finished request whose 404 response was written under its key, where
\* the same request made next is served that body from the cache
C17_Witness ==
    /\ sess.pc = "done"
    /\ sess.persist /\ sess.calls = 1 /\ ~sess.had_entry
    /\ sess.response.status \in ErrorStatuses
    /\ get_key_from_request(sess.request) \in DOMAIN table
    /\ table[get_key_from_request(sess.request)].cached_at = isoformat(now)
    /\ get_cached_response(sess.request, sess.repository).cached
    /\ get_cached_response(sess.request, sess.repository).data
            = sess.response.data

\* the session was called with a URL that cannot be built
CalledMalformed(s) == s.pc # "idle" /\ s.request.url.family = "malformed"

\* C18: a request with a URL that cannot be built raises InvalidURL before
\* the cache is looked up and before the network is called, and leaves the
\* cache as it was; the call after it is carried out as any other
C18_MalformedURL ==
    /\ [][(sess' # sess /\ CalledMalformed(sess'))
            => /\ sess'.pc = "raised" /\ sess'.error = "InvalidURL"
               /\ sess'.calls = 0
               /\ sess'.repository = "" /\ sess'.response = NoResponse
               /\ ~sess'.had_entry
               /\ table' = table /\ written' = written /\ cache' = cache]_vars
    /\ [](sess.error = "InvalidURL" =>
            ENABLED request_begin("GET", [family |-> "tracks", id |-> "a"], TRUE))
    /\ [][(sess.error = "InvalidURL" /\ sess' # sess /\ ~CalledMalformed(sess'))
            => sess'.error = "" /\ sess'.pc \in {"send", "yielded"}]_vars

\* the request has raised InvalidURL over a repository that holds an entry
C18_Witness ==
    /\ sess.pc = "raised" /\ sess.error = "InvalidURL"
    /\ sess.calls = 0 /\ sess.persist
    /\ DOMAIN table # {}

(***************************************************************************)
(* Claims about the classification of responses.                           *)
(***************************************************************************)
\* handle_unexpected_response has been called on a response
Classified == probe.fn = "unexpected" /\ probe.done

\* what holds of every 2xx response: no error is raised, and the value
\* returned tells whether the body holds an error message
SuccessClassified ==
    probe.response.status \in Ok =>
        /\ ~probe.out.raise
        /\ probe.out.found = probe.response.message

\* the API error of the response's status code is raised
RaisedWithCode == probe.out.raise /\ probe.out.code = probe.response.status

\* C19 as claimed: false and no error for a 2xx response without an error
\* message, true and no error for a 2xx response with one, and an API error
\* of the status code for every response outside 2xx
C19_EveryNon2xxRaises ==
    Classified =>
        /\ SuccessClassified
        /\ probe.response.status \notin Ok => RaisedWithCode

\* C19, amended: false and no error for a 2xx response without an error
\* message, true and no error for a 2xx response with one, an API error of
\* the status code for a response outside 2xx whose status has no handling
\* of its own, and no error for a transient or rate-limited status
C19_UnexpectedResponse ==
    Classified =>
        /\ SuccessClassified
        /\ (/\ probe.response.status \notin Ok
            /\ probe.response.status \notin Transient \cup RateLimited)
                => RaisedWithCode
        /\ probe.response.status \in Transient \cup RateLimited =>
            /\ ~probe.out.raise
            /\ probe.out.found = probe.response.message

\* a 2xx response with an error message, told of without an error
C19_Witness ==
    /\ Classified
    /\ probe.response.status \in Ok /\ probe.response.message
    /\ ~probe.out.raise /\ probe.out.found

\* C20: a 2xx response ends the call in success with its body, with no
\* sleep, no further send and no error, whatever rate-limit hint it carries
C20_HintOnSuccessIgnored ==
    \A i \in 1..Len(hand.log) :
        (Handled(i) /\ hand.log[i].status \in Ok) =>
            /\ hand.pc = "success"
            /\ hand.sends = i
            /\ hand.result = hand.log[i].body
            /\ hand.error = ""
            /\ SleptAfter(i) = {}

\* a call ended in success by a 2xx response whose hint is above the ceiling
C20_Witness ==
    /\ hand.pc = "success"
    /\ hand.response.status \in Ok
    /\ hand.response.retry_after.present
    /\ hand.response.retry_after.secs > timeout
    /\ hand.result = hand.response.body
    /\ hand.slept = <<>>

(***************************************************************************)
(* Claims about use_cache.                                                 *)
(***************************************************************************)
\* C21: a request made with use_cache off is sent over the network and
\* returns a response that is not from the cache, also when the cache holds
\* an entry for it that is not expired; a request made with use_cache on
\* while the cache holds the response of an earlier same request makes no
\* network call
C21_CacheBypass ==
    /\ (~sess.use_cache /\ sess.pc \in {"yielded", "done", "raised"}) =>
            /\ sess.calls = 1
            /\ ~sess.response.cached
    /\ (~sess.use_cache /\ sess.pc = "send") => sess.calls = 0
    /\ (sess.use_cache /\ LookedUp /\ sess.had_entry
            /\ deserialize(sess.stored) # None) =>
            /\ sess.calls = 0
            /\ sess.response.cached

\* with use_cache off the network has answered although a live entry with
\* data was there
C21_Witness ==
    /\ ~sess.use_cache
    /\ sess.pc = "done"
    /\ sess.had_entry /\ deserialize(sess.stored) # None
    /\ sess.calls = 1 /\ ~sess.response.cached

(***************************************************************************)
(* Claims about the connection.                                            *)
(***************************************************************************)
\* the value set under k and not deleted since is in the database file
Committed(k) ==
    /\ k \in DOMAIN conn.disk
    /\ conn.disk[k].data = serialize(written[k])

\* C22: when the scope of the cache has been left, normally or by a
\* failure, the connection is closed and every write made through set
\* before the exit is committed: a later connection to the file finds it
C22_ScopedLifecycle ==
    (~conn.alive /\ conn.closed_by = "cache") =>
        \A k \in DOMAIN written : Committed(k)

\* the scope of a cache with a repository was left normally, and a value
\* that was set is not in the file
C22_Witness ==
    /\ ~conn.alive /\ conn.closed_by = "cache" /\ ~conn.failed
    /\ "tracks" \in DOMAIN cache.repositories
    /\ \E k \in DOMAIN written :
        /\ serialize(written[k]) # None
        /\ k \notin DOMAIN conn.disk



Stored(value) == deserialize(serialize(value))

\* the writes of key that are handed over and not yet run
InProgress(c, key) ==
    {i \in 1..Len(c.queue) : c.queue[i].op # "get" /\ c.queue[i].key = key}

\* the statement the connection's thread runs in this step is the get st
RunsGet(st) ==
    /\ conn.queue # <<>>
    /\ st = Head(conn.queue)
    /\ st.op = "get"
    /\ conn'.queue = Tail(conn.queue)

\* C24: with sets and gets of one key in flight together, a get gives back
\* the value of the last write that was run or of a write in progress, and
\* gives back nothing only if nothing was written yet, the entry is expired
\* or nothing is what that write stores; a stored row is always the whole
\* row of one write; and with no write in progress the row holds the value
\* of the write that was run last
C24_AtomicLastWriterWins ==
    [][ /\ \A st \in {Statement("get", k, None, t) : k \in HotKeys, t \in 0..MaxTime} :
             RunsGet(st) =>
                /\ conn'.returned.op = "get" /\ conn'.returned.key = st.key
                /\ \/ /\ st.key \in DOMAIN written
                      /\ conn'.returned.value = Stored(written[st.key])
                   \/ \E i \in InProgress(conn, st.key) :
                         conn'.returned.value = Stored(conn.queue[i].value)
                   \/ /\ conn'.returned.value = None
                      /\ \/ st.key \notin DOMAIN written
                         \/ /\ st.key \in DOMAIN table
                            /\ ~NotExpired(table[st.key], st.at)
        /\ \A k \in DOMAIN table' :
             /\ k \in DOMAIN written'
             /\ \E t \in 0..MaxTime : table'[k] = NewRow(written'[k], t)
        /\ \A k \in DOMAIN written' :
             InProgress(conn', k) = {} =>
                /\ k \in DOMAIN table'
                /\ table'[k].data = serialize(written'[k])
      ]_vars

\* a get gave back the value of one write, a later write of another value
\* was run after it, and with nothing in progress the row holds the later
C24_Witness ==
    \E k \in HotKeys :
        /\ conn.returned.op = "get" /\ conn.returned.key = k
        /\ conn.returned.value = Dict(1)
        /\ conn.queue = <<>>
        /\ k \in DOMAIN table
        /\ written[k] = RawText(1)
        /\ table[k].data = None

\* the rows of every key but key are the same before and after the step
OthersUnchanged(key) ==
    \A j \in Keys \ {key} :
        /\ j \in DOMAIN table <=> j \in DOMAIN table'
        /\ j \in DOMAIN table => table'[j] = table[j]

\* C25: delete_response(k) removes the row stored under k, expired or not,
\* and gives back true exactly when there was one; after it get_response(k)
\* is None and contains(k) is false, and the rows of the other keys are
\* as they were
C25_Delete ==
    [][ \A k \in Keys :
          delete_response(k) =>
             /\ conn'.returned.op = "delete"
             /\ conn'.returned.flag = (k \in DOMAIN table)
             /\ k \notin DOMAIN table'
             /\ get_response(k)' = None
             /\ ~contains(k)'
             /\ OthersUnchanged(k)
      ]_vars

\* a delete that removed the row of one key, at a time when a row written
\* at the start would be expired, and left the row of another key
C25_Witness ==
    \E k \in Keys :
        /\ conn.returned.op = "delete" /\ conn.returned.key = k
        /\ conn.returned.flag
        /\ k \notin DOMAIN table
        /\ now > Ttl
        /\ \E j \in Keys \ {k} : j \in DOMAIN table /\ ~NotExpired(table[j], now)

FoundCorrupted ==
    /\ sess.had_entry
    /\ sess.stored.type = "str"
    /\ ~sess.stored.valid

\* C27: a stored text that cannot be deserialized, not expired, is given
\* back by get_response as None and nothing is raised; the session takes it
\* as a miss: it yields no cached response and makes the network call
C27_CorruptedIsMiss ==
    /\ \A k \in DOMAIN table :
          (table[k].data.type = "str" /\ ~table[k].data.valid) =>
              get_response(k) = None
    /\ FoundCorrupted =>
          /\ sess.pc \in {"send", "yielded", "done"}
          /\ sess.error = ""
          /\ ~sess.response.cached
          /\ sess.pc = "send" => sess.calls = 0
          /\ sess.pc \in {"yielded", "done"} => sess.calls = 1

C27_Witness ==
    /\ FoundCorrupted
    /\ sess.pc = "done"
    /\ sess.calls = 1
    /\ ~sess.response.cached
    /\ sess.response.status = 200

\* the step ends a request whose fresh response is to be written while the
\* write cannot be made
WriteFailing ==
    /\ sess.pc = "yielded"
    /\ sess.persist /\ ~sess.response.cached
    /\ sess.repository # ""
    /\ get_key_from_request(sess.request) # NoKey
    /\ ~conn.alive
    /\ sess'.pc # "yielded"

\* C28: when the write of the fresh response fails, the request call ends
\* with that error: it is raised, not done, and nothing is stored
C28_WriteFailureNotSwallowed ==
    [][ WriteFailing =>
          /\ sess'.pc = "raised"
          /\ sess'.error = "write failed"
          /\ table' = table
      ]_vars

C28_Witness ==
    /\ sess.pc = "raised"
    /\ sess.error = "write failed"
    /\ sess.calls = 1
    /\ sess.response.status = 200
    /\ ~conn.alive

\* the step is a read of the repository
IsRead ==
    \/ \E k \in Keys : call_get_response(k)
    \/ \E k \in Keys : call_contains(k)
    \/ \E e \in BOOLEAN : call_count(e)
    \/ call_aiter
    \/ \E r \in Requests : call_get_key_from_request(r)

\* C29: get_response, contains, count, iteration and the derivation of a
\* key leave the rows as they are, the expired ones too, and so the count
\* with expired rows included; a row goes or changes only in a delete or a
\* set of its key, never as time passes
C29_ReadsNeverEvict ==
    [][ /\ IsRead => (table' = table /\ count(TRUE)' = count(TRUE))
        /\ \A k \in DOMAIN table :
              (k \notin DOMAIN table' \/ table'[k] # table[k]) =>
                  (delete_response(k) \/ \E v \in Payloads : Set(k, v))
      ]_vars

\* a get that found the row of its key expired and gave back nothing: the
\* row is stored still and counted among all rows, not among the live ones
C29_Witness ==
    \E k \in Keys :
        /\ conn.returned.op = "get" /\ conn.returned.key = k
        /\ conn.returned.value = None
        /\ k \in DOMAIN table
        /\ table[k].data # None
        /\ ~NotExpired(table[k], now)
        /\ count(TRUE) = 1 /\ count(FALSE) = 0

\* C30: the connection of the cache is closed by the cache alone: no call
\* on a repository, its close and its scoped exit among them, closes it
C30_RepositoriesBorrow ==
    ~conn.alive => conn.closed_by = "cache"

\* the cache holds two repositories and the close or the exit of one of
\* them has closed the connection they share: no call on the other can be
\* made any more
C30_Witness ==
    /\ ~conn.alive
    /\ conn.closed_by \in Families
    /\ Cardinality(DOMAIN cache.repositories) = 2
    /\ \A k \in Keys, v \in Payloads : ~ENABLED Set(k, v)

\* the step is one of the request handler's
HandlerStep ==
    \/ hCall
    \/ \E r \in Responses : hSend(r)
    \/ hHandle

LastTestValid ==
    /\ auth.log # <<>>
    /\ auth.log[Len(auth.log)].ev = "test"
    /\ auth.log[Len(auth.log)].ok

\* C32: without a token_file_path load_token and save_token do nothing and
\* raise nothing: the file is as it was when the call began, and a call of
\* auth whose token was found valid goes on to return the headers
C32_NoSinkNoOp ==
    (~conf.token_file_path /\ auth.pc # "idle") =>
        /\ file = auth.file0
        /\ LastTestValid => auth.pc = "save"

\* auth has found its token valid, a token the headers can be formatted
\* from, and has raised in save_token
C32_Witness ==
    /\ ~conf.token_file_path
    /\ LastTestValid
    /\ auth.pc = "raised"
    /\ auth.error = "TypeError"
    /\ ~headers(token).raised
    /\ file = auth.file0

\* the step is a request_token: the token becomes the stamped answer
ByRequestToken ==
    /\ auth.pc \in {"generate", "refresh", "reauth"}
    /\ \E g \in Grants : token' = request_token(token, g, now)

\* the step is the load_token of a call of auth: the token becomes the
\* content of the file at token_file_path
ByLoadToken ==
    /\ auth.pc \in {"idle", "returned", "raised"}
    /\ auth'.pc \in {"generate", "test"}
    /\ conf.token_file_path
    /\ file.held
    /\ token' = file

\* C33 as stated: the token changes in request_token only
C33_OnlyRequestToken == [][token' # token => ByRequestToken]_vars

\* C33: the token changes in request_token and in load_token only; test,
\* the headers, save_token and the passing of time leave it as it is
C33_TokenMutationConfined ==
    [][token' # token => (ByRequestToken \/ ByLoadToken)]_vars

\* a token that no request_token of this call has made: load_token has
\* read it from the file
C33_Witness ==
    /\ auth.pc = "test"
    /\ auth.log = <<>>
    /\ conf.token_file_path
    /\ token.held
    /\ token = file

\* the three checks of a token at a time, the probe answering probe_ok
NoErrorMarker(tok) == ~tok.error
ProbePasses(cfg, probe_ok) == cfg.test_args => probe_ok
NotYetExpired(tok, cfg, t) ==
    (tok.has_expiry /\ cfg.test_expiry > 0) => t + cfg.test_expiry < tok.expires_at

\* C34: in every test that auth makes, the result is true exactly when the
\* token has no error marker, the probe (if one is configured) passes and
\* the expiry check (if it applies) passes; on a token with the error
\* marker the result is false and no probe request is made; and auth goes
\* on with that result
C34_TestConjunction ==
    [][ \A ok \in BOOLEAN :
          aTest(ok) =>
             LET r == test(token, conf, ok, now)
             IN  /\ r.valid = ( /\ ~r.raised
                                /\ NoErrorMarker(token)
                                /\ ProbePasses(conf, ok)
                                /\ NotYetExpired(token, conf, now) )
                 /\ token.error => (~r.valid /\ ~r.probed /\ ~r.raised)
                 /\ r.probed => conf.test_args
                 /\ ~r.raised =>
                       /\ auth'.log = Append(auth.log,
                                             Event("test", r.valid, token.refresh # 0))
                       /\ (auth'.pc = "save") = r.valid
      ]_vars

\* a test of a token with the error marker, with a probe configured: found
\* not valid
C34_Witness ==
    /\ auth.tested.held /\ auth.tested.error
    /\ conf.test_args
    /\ auth.log # <<>>
    /\ auth.log[Len(auth.log)] = Event("test", FALSE, auth.tested.refresh # 0)
    /\ auth.pc \in {"reauth", "refresh", "raised"}

\* C35: after a request_token the token held is stamped with the time of
\* the grant, has an expiry exactly when the answer declares a lifetime,
\* that expiry being the time of the grant plus the lifetime, has the
\* refresh token of the answer when there is one and else the one held
\* before, if any
C35_GrantBookkeeping ==
    [][ \A g \in Grants :
          aRequestToken(g) =>
             /\ token'.held
             /\ token'.access = g.access
             /\ token'.granted_at = now
             /\ token'.has_expiry = (g.expires_in # 0)
             /\ g.expires_in # 0 => token'.expires_at = token'.granted_at + g.expires_in
             /\ g.refresh # 0 => token'.refresh = g.refresh
             /\ (g.refresh = 0 /\ token.held) => token'.refresh = token.refresh
             /\ (g.refresh = 0 /\ ~token.held) => token'.refresh = 0
      ]_vars

\* the error document, which has no refresh token, was the answer to a
\* refresh, at a later time than the start: the token still has the
\* refresh token held before
C35_Witness ==
    /\ auth.pc = "test"
    /\ auth.log # <<>>
    /\ auth.log[Len(auth.log)].ev = "request_refresh"
    /\ token.error
    /\ token.refresh # 0
    /\ token.granted_at = now /\ now > 0
    /\ ~token.has_expiry

\* C36: for every key, contains is true exactly when get_response gives
\* back a value
C36_PresenceIsRetrievable ==
    \A k \in Keys : contains(k) <=> get_response(k) # None

\* a text that is no JSON was set under a key: the row is there, not
\* expired, with no data; contains finds it and get_response gives None
C36_Witness ==
    \E k \in Keys :
        /\ k \in DOMAIN table
        /\ written[k] = RawText(1)
        /\ table[k].data = None
        /\ contains(k)
        /\ get_response(k) = None

\* C37: a request, asked to persist, whose URL belongs to no repository is
\* sent once, its response is returned and the call ends without an error
C37_OutsideFamilySucceeds ==
    (sess.request.url.family = "other" /\ sess.persist) =>
        /\ sess.repository = ""
        /\ sess.pc \in {"send", "yielded", "done"}
        /\ sess.error = ""
        /\ sess.pc \in {"yielded", "done"} =>
              (sess.calls = 1 /\ ~sess.response.cached)

\* the one network call was made and its response yielded, and the call
\* has ended with the AttributeError of None.save_response
C37_Witness ==
    /\ sess.request.url.family = "other"
    /\ sess.persist
    /\ sess.repository = ""
    /\ sess.calls = 1
    /\ sess.response.status = 200
    /\ sess.pc = "raised"
    /\ sess.error = "AttributeError"


\* C38: a call that has ended after a network response obtained with persist
\* set, for a request its repository derives a key for, has written that
\* response, however the caller's handling of the response went
C38_Key == get_key_from_request(sess.request)
C38_FreshPersisted ==
    /\ sess.pc \in {"done", "raised"}
    /\ sess.calls = 1
    /\ sess.persist
    /\ ~sess.response.cached
    /\ sess.repository # ""
    /\ C38_Key # NoKey
C38_NoDroppedWrite ==
    C38_FreshPersisted =>
        /\ C38_Key \in DOMAIN written
        /\ written[C38_Key] = sess.response.data
        /\ C38_Key \in DOMAIN table
C38_Witness ==
    /\ C38_FreshPersisted
    /\ sess.error = "caller"
    /\ C38_Key \notin DOMAIN table
    /\ C38_Key \notin DOMAIN written


\* the tasks that got a response from the network
C39_Received == {i \in Tasks : tasks[i].calls = 1}
C39_AllDone == \A i \in Tasks : tasks[i].pc = "done"
C39_Key == get_key_from_request(SharedRequest)

C40_InteractiveRequest ==
    /\ args.user_args
    /\ auth.pc \in {"generate", "reauth"}
    /\ (\E g \in Grants : aRequestToken(g)) \/ aRequestFails

\* C40: every token request made with user set, while a user-authorisation
\* step is configured, drives the browser and listener flow again and is
\* posted with the code that flow has just received
C40_OwnCodePerRequest ==
    [][C40_InteractiveRequest =>
          /\ args'.issued = args.issued + 1
          /\ args'.posted = args'.issued]_vars

\* the re-authorisation of step 5 has posted its token request with the
\* code of the first grant, the only code ever received
C40_Witness ==
    /\ args.user_args
    /\ auth.stage = 3
    /\ Len(SelectSeq(auth.log, LAMBDA e : e.ev = "request_user")) = 2
    /\ args.issued = 1
    /\ args.posted = 1

=========================================================================
